---- MODULE Spec2Model ----
(***************************************************************************)
(* Feedback Loop: the shared state store (state.js), the message bus       *)
(* (engine/channel.js) and the per-tab trigger protocol of the levels      *)
(* (levels/level1.js .. level4.js), as a state machine.                    *)
(*                                                                         *)
(* Every browser tab is an execution context.  Contexts share only the     *)
(* localStorage cell that holds the game document and the message bus.     *)
(* A handler of a context runs to completion inside that context, but the  *)
(* storage reads, storage writes and postMessage calls it makes are        *)
(* separate steps as seen from the other contexts: todo[c] holds what is   *)
(* left of the handler that context c is running.                          *)
(*                                                                         *)
(* The module states several specifications over the same actions:         *)
(*   Spec         the loop of tabs 3 and 1 (one tab-3 context, two tab-1   *)
(*                contexts), every setState call taken as one step;        *)
(*   SpecPattern  the pattern puzzle of tab 2 and the bonus symbol of      *)
(*                tab 1 (one tab-1 context, two tab-2 contexts);           *)
(*   SpecRace     tabs 3 and 1, one context each, with the read and the    *)
(*                write of every setState call as separate steps;          *)
(*   SpecStore    the store alone, under callers that issue the updaters   *)
(*                of the levels in any order, reads and writes interleaved;*)
(*   SpecAppend   one context appending floor symbols, call after call;    *)
(*   SpecChannel  the message bus alone, under callers that register,      *)
(*                remove and send, on either transport;                    *)
(*   SpecSchema   the store over persisted values that are no document;    *)
(*   SpecApi      the exported functions of state.js, a call one step, on  *)
(*                a storage that may refuse a write;                       *)
(*   SpecForward  tabs 3, 1 and 2 receiving an unknown envelope type;      *)
(*   SpecMalformed the fallback handler under foreign writes to its key;   *)
(*   SpecActTwo   tab 1 in 3D collecting the mind fragments, and tab 2;    *)
(*   SpecNarrated tab 2 in two contexts with the lines of the narrator;    *)
(*   SpecAudio    the audio functions of engine/favicon.js in one context; *)
(*   SpecItem     tab 3 after completion and tab 1 in 3D, up to the Act 2  *)
(*                item of tab 3;                                           *)
(*   SpecEmergence tab 4 collecting the memory fragments;                  *)
(*   SpecPatternRace tab 1 in two contexts and tab 2 in one, reads and     *)
(*                writes of setState interleaved;                          *)
(*   SpecLines    the narrator of one context under any order of triggers. *)
(***************************************************************************)
EXTENDS Integers, Sequences, FiniteSets, TLC

VARIABLES
    storage,    \* localStorage[STORAGE_KEY]: the raw persisted value
    loc,        \* loc[c]: the closure variables of the level running in c
    todo,       \* todo[c]: the rest of the handler that c is running
    snap,       \* snap[c]: `current` of the setState call c is inside
    inbox,      \* inbox[c]: message events queued for c, oldest first
    hasBroadcastChannel,  \* the host offers BroadcastChannel
    hist,       \* history: the document the run started from and the
                \* setState calls issued since, in call order (SpecStore);
                \* the envelopes sent and the callbacks invoked (SpecChannel)
    chan        \* channel.js: the fallback cell, the listener bookkeeping
                \* and the events pending in each context (SpecChannel)

vars == <<storage, loc, todo, snap, inbox, hasBroadcastChannel, hist, chan>>

----------------------------------------------------------------------------
(* Bounds of the model *)

\* Floor symbols of tab 1 / required symbols of tab 3 that the model plays
\* with (the game has five; the thresholds below scale with this number).
NumFloorSymbols == 2

\* Longest queue of undelivered message events per context; an event that
\* arrives at a full queue is missed by that context.
MaxInbox == 1

\* tabs[n].visitCount saturates here (the code only compares it with 2).
VisitCap == 2

\* setState calls that the callers of SpecStore issue in one run.
MaxCalls == 3

\* The execution contexts of the model and the tab each one shows; every
\* specification opens the contexts of its own set.
CtxTabs == <<3, 1, 1, 2, 2, 4>>
Ctx == 1 .. Len(CtxTabs)
TabOf(c) == CtxTabs[c]
LoopCtx == {1, 2, 3}
PatternCtx == {2, 4, 5}
RaceCtx == {1, 2}
StoreCtx == {1, 2}

Tabs == 1 .. 4
FloorSymbols == 1 .. NumFloorSymbols

----------------------------------------------------------------------------
(* The game document *)

defaultState ==
    [ tabs |-> <<
        [ visitCount |-> 0, state |-> "unvisited", puzzleSolved |-> FALSE,
          symbolsFound |-> <<>>, floorRevealed |-> FALSE ],
        [ visitCount |-> 0, state |-> "unvisited", puzzleSolved |-> FALSE,
          symbolsFound |-> <<>> ],
        [ visitCount |-> 0, state |-> "unvisited", puzzleSolved |-> FALSE,
          backtrackedTo1 |-> FALSE ],
        [ visitCount |-> 0, state |-> "unvisited", fragmentsCollected |-> <<>> ] >>,
      player |-> [ hasFlashlight |-> FALSE, codeFragments |-> <<>>,
                   mindFragments |-> <<>> ],
      narrative |-> [ shown |-> <<>> ],
      meta |-> [ currentTab |-> 0, highestTabUnlocked |-> 1,
                 gameComplete |-> FALSE, actTwoComplete |-> FALSE ] ]

\* rec.key === true, for a key the record may not have (a dynamic key)
IsTrue(rec, key) == key \in DOMAIN rec /\ rec[key] = TRUE

\* { ...rec, ...updates }
Spread(rec, updates) ==
    [ k \in DOMAIN rec \cup DOMAIN updates |->
        IF k \in DOMAIN updates THEN updates[k] ELSE rec[k] ]

\* array.includes(x) and array.push(x)
Includes(array, x) == \E i \in 1 .. Len(array) : array[i] = x
Push(array, x) == Append(array, x)

----------------------------------------------------------------------------
(* Updaters: the functions the levels hand to setState *)

\* updateTabState that replaces the record: state.tabs[id] = updates
MergeTabReplaces(doc, id, updates) ==
    [ doc EXCEPT !.tabs[id] = updates ]

\* updateTabState: state.tabs[id] = { ...state.tabs[id], ...updates }
MergeTab(doc, id, updates) ==
    [ doc EXCEPT !.tabs[id] = Spread(doc.tabs[id], updates) ]

\* The push without the includes() guard
PushCodeFragmentAlways(doc, symbol) ==
    [ doc EXCEPT !.player.codeFragments = Push(@, symbol) ]

\* if (!s.player.codeFragments.includes(symbol)) push(symbol)
PushCodeFragment(doc, symbol) ==
    IF Includes(doc.player.codeFragments, symbol)
    THEN doc
    ELSE [ doc EXCEPT !.player.codeFragments = Push(@, symbol) ]

\* if (s.meta.highestTabUnlocked < n) s.meta.highestTabUnlocked = n
UnlockTab(doc, n) ==
    IF doc.meta.highestTabUnlocked < n
    THEN [ doc EXCEPT !.meta.highestTabUnlocked = n ]
    ELSE doc

\* if (!s.player.mindFragments.includes(id)) push(id)
PushMindFragment(doc, id) ==
    IF Includes(doc.player.mindFragments, id)
    THEN doc
    ELSE [ doc EXCEPT !.player.mindFragments = Push(@, id) ]

\* if (!s.tabs['4'].fragmentsCollected.includes(id)) push(id)
PushMemoryFragment(doc, id) ==
    IF Includes(doc.tabs[4].fragmentsCollected, id)
    THEN doc
    ELSE [ doc EXCEPT !.tabs[4].fragmentsCollected = Push(@, id) ]

\* The game shell (game.html) counts the visit and marks the tab visited
\* before it starts the level.
ShellVisit(doc, id) ==
    [ doc EXCEPT
        !.tabs[id].visitCount = IF @ < VisitCap THEN @ + 1 ELSE @,
        !.tabs[id].state = IF @ = "unvisited" THEN "visited" ELSE @ ]

\* Values that JSON.parse returns for texts that are no game document: a
\* number, null, an object without tabs
JsNumber == [ js |-> "number" ]
JsNull == [ js |-> "null" ]
EmptyObject == [ js |-> "object" ]
IsDocument(value) == DOMAIN value = DOMAIN defaultState

ApplyUpdater(upd, doc) ==
    CASE upd.k = "merge"        -> MergeTab(doc, upd.id, upd.updates)
      [] upd.k = "flashlight"   -> [ doc EXCEPT !.player.hasFlashlight = TRUE ]
      [] upd.k = "pushCode"     -> PushCodeFragment(doc, upd.symbol)
      [] upd.k = "unlock"       -> UnlockTab(doc, upd.n)
      [] upd.k = "gameComplete" -> [ doc EXCEPT !.meta.gameComplete = TRUE ]
      [] upd.k = "actTwoComplete" -> [ doc EXCEPT !.meta.actTwoComplete = TRUE ]
      [] upd.k = "pushMind"     -> PushMindFragment(doc, upd.id)
      [] upd.k = "pushMemory"   -> PushMemoryFragment(doc, upd.id)
      [] upd.k = "returnsEmpty" -> EmptyObject

\* The updaters of the levels read and assign members of s.tabs, s.player
\* or s.meta: on a value without them they throw a TypeError
UpdaterThrows(upd, current) ==
    upd.k # "returnsEmpty" /\ ~IsDocument(current)

----------------------------------------------------------------------------
(* state.js: the persisted cell *)

Absent == [ kind |-> "absent" ]
Empty == [ kind |-> "empty" ]
Corrupt == [ kind |-> "corrupt" ]

\* JSON.stringify(doc) / JSON.parse(raw): the text of a document is kept as
\* a tagged value; parsing fails on anything that is not such a text.
JSONstringify(doc) == [ kind |-> "json", val |-> doc ]
Parses(raw) == raw.kind = "json"
JSONparse(raw) == raw.val

\* getState() that forgets what is persisted
getStateForgets(raw) == defaultState

\* getState() that leaves the cell as it found it
getStateStoreKeeps(raw) == raw

\* getState(): what it returns, and what it leaves in the cell
getState(raw) == IF Parses(raw) THEN JSONparse(raw) ELSE defaultState
getStateStore(raw) == IF Parses(raw) THEN raw ELSE JSONstringify(defaultState)

----------------------------------------------------------------------------
(* Envelopes and the bus *)

Envelope(type, fromTab, payload) ==
    [ type |-> type, fromTab |-> fromTab, payload |-> payload ]

\* payload?.targetTab === n, payload?.completedTab === n, payload?.reason === r
PayloadIs(msg, key, value) ==
    key \in DOMAIN msg.payload /\ msg.payload[key] = value

\* A message event is queued for every live context that has a channel object
\* other than the posting one: `self` tells whether the poster's own context
\* holds such an object.
Post(inb, sender, self, env) ==
    [ c \in Ctx |->
        IF loc[c].live /\ (c # sender \/ self) /\ Len(inb[c]) < MaxInbox
        THEN Append(inb[c], env)
        ELSE inb[c] ]

\* state.js _broadcast: posts on the store's own BroadcastChannel object, so
\* the channel object of channel.js in the same context also gets the event;
\* without BroadcastChannel _channel is null and nothing is posted.
Broadcast(inb, sender, fromTab, payload) ==
    IF hasBroadcastChannel
    THEN Post(inb, sender, TRUE, Envelope("STATE_CHANGE", fromTab, payload))
    ELSE inb

----------------------------------------------------------------------------
(* engine/channel.js in detail: listener bookkeeping and both transports *)

\* Envelopes that one run sends
MaxSends == 2

\* Events pending in one context; send waits while a receiver's queue is full
MaxPending == 2

\* Values that Date.now() + Math.random() takes within one run: two calls in
\* the same millisecond give the same double when the two random fractions
\* round to the same sum
NumNonces == 2

Nonces == 1 .. NumNonces
ChanCtx == {1, 2}
\* The callbacks that the scripts of a context hand to onMessage
Callbacks == { "onMessageA", "onMessageB" }
CallbacksOf(c) == IF c = 1 THEN { "onMessageA" } ELSE Callbacks
LS_KEY == "__feedbackloop_channel__"
STORAGE_KEY == "feedbackloop_state"
NoHandler == [ cb |-> "none", n |-> 0, on |-> "none" ]

NoChannel ==
    [ lsKey |-> Absent,
      listenerMap |-> [ c \in ChanCtx |-> [ cb \in CallbacksOf(c) |-> NoHandler ] ],
      listeners |-> [ c \in ChanCtx |-> {} ],
      events |-> [ c \in ChanCtx |-> <<>> ] ]

\* listenerMap.has(callback), and a lookup that never finds the callback
listenerMapHasNot(ch, c, cb) == FALSE
listenerMapHas(ch, c, cb) == ch.listenerMap[c][cb] # NoHandler

\* The handlers on the event targets of c that wrap callback cb
HandlersOf(ch, c, cb) == { h \in ch.listeners[c] : h.cb = cb }

\* onMessage(callback): a new handler closure is attached to the channel
\* object ('message') or, without BroadcastChannel, to window ('storage')
onMessage(ch, c, cb) ==
    IF listenerMapHas(ch, c, cb)
    THEN ch
    ELSE LET handler == [ cb |-> cb,
                          n |-> Cardinality(HandlersOf(ch, c, cb)) + 1,
                          on |-> IF hasBroadcastChannel THEN "message"
                                                        ELSE "storage" ] IN
         [ ch EXCEPT !.listeners[c] = @ \cup { handler },
                     !.listenerMap[c][cb] = handler ]

\* removeListener(callback), and a removal that forgets the event target
removeListenerMapOnly(ch, c, cb) ==
    [ ch EXCEPT !.listenerMap[c][cb] = NoHandler ]
removeListener(ch, c, cb) ==
    LET handler == ch.listenerMap[c][cb] IN
    IF handler = NoHandler
    THEN ch
    ELSE [ ch EXCEPT !.listeners[c] = @ \ { handler },
                     !.listenerMap[c][cb] = NoHandler ]

\* { ...envelope, _nonce } and const { _nonce, ...message } = parsed, and a
\* handler that hands the parsed value on as it is
Wrap(envelope, nonce) ==
    [ k \in DOMAIN envelope \cup { "_nonce" } |->
        IF k = "_nonce" THEN nonce ELSE envelope[k] ]
StripKeepsNonce(parsed) == parsed
Strip(parsed) == [ k \in DOMAIN parsed \ { "_nonce" } |-> parsed[k] ]

\* The events of a queue are handled oldest first (NewestEvent: a loop
\* that takes the newest)
NewestEvent(q) == q[Len(q)]
NextEvent(q) == Head(q)
RestEvents(q, ev) ==
    IF ev = Head(q) THEN Tail(q) ELSE SubSeq(q, 1, Len(q) - 1)

\* An event is queued for every context but the one it comes from; tag
\* names the send call it stems from (history only)
Fire(ch, c, ev, tag) ==
    [ ch EXCEPT !.events =
        [ d \in ChanCtx |->
            IF d # c THEN Append(@[d], [ ev |-> ev, tag |-> tag ]) ELSE @[d] ] ]

\* lsFallbackPost(envelope): setItem fires a storage event only when the
\* value of the key changes
lsFallbackPost(ch, c, envelope, nonce, tag) ==
    LET wrapped == JSONstringify(Wrap(envelope, nonce))
        written == [ ch EXCEPT !.lsKey = wrapped ] IN
    IF wrapped = ch.lsKey
    THEN written
    ELSE Fire(written, c,
              [ on |-> "storage", key |-> LS_KEY, newValue |-> wrapped ], tag)

\* send(type, payload, fromTab)
send(ch, c, type, payload, fromTab, nonce, tag) ==
    LET envelope == Envelope(type, fromTab, payload) IN
    IF hasBroadcastChannel
    THEN Fire(ch, c, [ on |-> "message", data |-> envelope ], tag)
    ELSE lsFallbackPost(ch, c, envelope, nonce, tag)

\* What a handler passes to its callback for an event: the message, or
\* nothing when the fallback handler returns early
NoMessage == [ none |-> TRUE ]
\* The handler of lsFallbackListen without the test of event.key
HandlerMessageAnyKey(ev) ==
    IF ev.on = "message"
    THEN ev.data
    ELSE IF ~Parses(ev.newValue) \/ JSONparse(ev.newValue) = JsNull
         THEN NoMessage
         ELSE Strip(JSONparse(ev.newValue))

HandlerMessage(ev) ==
    IF ev.on = "message"
    THEN ev.data
    ELSE IF ev.key # LS_KEY \/ ev.newValue = Absent \/ ev.newValue = Empty
         THEN NoMessage      \* if (event.key !== LS_KEY || !event.newValue) return
    ELSE IF ~Parses(ev.newValue)
         THEN NoMessage      \* JSON.parse throws, caught
    ELSE IF JSONparse(ev.newValue) = JsNull
         THEN NoMessage      \* destructuring null throws, caught
    ELSE IF JSONparse(ev.newValue) = JsNumber
         THEN EmptyObject    \* the rest properties of a number: {}
    ELSE Strip(JSONparse(ev.newValue))

----------------------------------------------------------------------------

(* Closure variables of a level *)

\* The module state of the audio functions: a gain node is known by the
\* number of the playLofiMusic call that created it, 0 is null; cleanups
\* counts the 200 ms timers of stopLofiMusic that have not fired yet
NoAudio ==
    [ ctx |-> FALSE, musicBus |-> FALSE, tabVisible |-> TRUE,
      musicStarter |-> FALSE, silenced |-> FALSE,
      ambientOsc |-> FALSE, currentAmbientTab |-> 0,
      lofiMaster |-> 0, lofiTimerId |-> FALSE, lofiRunning |-> FALSE,
      created |-> 0, disconnected |-> {}, cleanups |-> 0 ]

NoLevel ==
    [ live |-> FALSE, listening |-> FALSE,
      \* level1.js
      is3DMode |-> FALSE, entered3D |-> FALSE,
      bonusSymbolPlaced |-> FALSE, bonusSymbolCollected |-> FALSE,
      exitUnlocked |-> FALSE, firstVisitKeydownHandler |-> FALSE,
      interactables |-> "none", symbolInteractables |-> {},
      onMove |-> "none", onInteract |-> "none",
      scene |-> FALSE, mindFragMeshes |-> {},
      \* level2.js
      activatedSequence |-> <<>>, puzzleSolved |-> FALSE,
      midPuzzleResolved |-> FALSE, symbolsLocked |-> FALSE,
      \* level3.js
      backtrackTriggered |-> FALSE, wallDissolved |-> FALSE,
      gameComplete |-> FALSE,
      actTwoItemPlaced |-> FALSE, actTwoTimer |-> FALSE,
      \* level4.js: the ids of `fragments`, conclusionTriggered, and the
      \* 3 s timer of the conclusion
      fragments |-> {}, conclusionTriggered |-> FALSE,
      conclusionTimer |-> FALSE,
      \* level2.js, level3.js: window keydown listener onExitKeydown
      onExitKeydown |-> FALSE,
      \* engine/narrator.js: _shownLines in insertion order, _isAnimating
      shownLines |-> <<>>, isAnimating |-> FALSE,
      \* level3.js: triggerNarrator('tab3_block').then(...), the promise and
      \* the 800 ms timer behind it: "none", "promise", "timer" or "done"
      thenChain |-> "none",
      \* the audio module
      audio |-> NoAudio ]

NoSnap == [ kind |-> "none" ]

\* Steps a handler is made of
SetOp(upd, fromTab) == [ op |-> "set", upd |-> upd, fromTab |-> fromTab ]
WriteOp(upd, fromTab) == [ op |-> "write", upd |-> upd, fromTab |-> fromTab ]
SendOp(type, payload, fromTab) ==
    [ op |-> "send", type |-> type, payload |-> payload, fromTab |-> fromTab ]
ReadOp(at) == [ op |-> at ]
UpdateTabStateOp(id, updates) ==
    SetOp([ k |-> "merge", id |-> id, updates |-> updates ], id)

Idle(c) == loc[c].live /\ todo[c] = <<>>
At(c, op) == loc[c].live /\ todo[c] # <<>> /\ Head(todo[c]).op = op

----------------------------------------------------------------------------
(* state.js setState and channel.js send, step by step *)

\* setState, first half: const current = getState()
SetStateRead(c) ==
    /\ At(c, "set")
    /\ snap' = [ snap EXCEPT ![c] = getState(storage) ]
    /\ storage' = getStateStore(storage)
    /\ todo' = [ todo EXCEPT ![c] =
                   <<WriteOp(Head(@).upd, Head(@).fromTab)>> \o Tail(@) ]
    /\ UNCHANGED <<loc, inbox, hasBroadcastChannel, hist, chan>>

\* setState, second half: next = updater(current); setItem(next); _broadcast.
\* An updater that throws ends the call, and the handler around it, before
\* the write.
SetStateWrite(c) ==
    /\ At(c, "write")
    /\ snap' = [ snap EXCEPT ![c] = NoSnap ]
    /\ IF UpdaterThrows(Head(todo[c]).upd, snap[c])
       THEN /\ todo' = [ todo EXCEPT ![c] = <<>> ]
            /\ UNCHANGED <<storage, inbox>>
       ELSE /\ LET next == ApplyUpdater(Head(todo[c]).upd, snap[c]) IN
                 /\ storage' = JSONstringify(next)
                 /\ inbox' = Broadcast(inbox, c, Head(todo[c]).fromTab, next)
            /\ todo' = [ todo EXCEPT ![c] = Tail(@) ]
    /\ UNCHANGED <<loc, hasBroadcastChannel, hist, chan>>

\* setState as one step: no other context runs between its read and write
SetState(c) ==
    /\ At(c, "set")
    /\ LET current == getState(storage) IN
        IF UpdaterThrows(Head(todo[c]).upd, current)
        THEN /\ storage' = getStateStore(storage)
             /\ todo' = [ todo EXCEPT ![c] = <<>> ]
             /\ UNCHANGED inbox
        ELSE /\ LET next == ApplyUpdater(Head(todo[c]).upd, current) IN
                  /\ storage' = JSONstringify(next)
                  /\ inbox' = Broadcast(inbox, c, Head(todo[c]).fromTab, next)
             /\ todo' = [ todo EXCEPT ![c] = Tail(@) ]
    /\ UNCHANGED <<loc, snap, hasBroadcastChannel, hist, chan>>

\* channel.js send: the envelope goes to the other contexts, over
\* BroadcastChannel or, without it, through the storage event of the
\* fallback key (which fires only in the other contexts as well)
ChannelSend(c) ==
    /\ At(c, "send")
    /\ LET h == Head(todo[c]) IN
        inbox' = Post(inbox, c, FALSE, Envelope(h.type, h.fromTab, h.payload))
    /\ todo' = [ todo EXCEPT ![c] = Tail(@) ]
    /\ UNCHANGED <<storage, loc, snap, hasBroadcastChannel, hist, chan>>

\* A context that is suspended misses the oldest event queued for it
Miss(c) ==
    /\ loc[c].live /\ inbox[c] # <<>>
    /\ inbox' = [ inbox EXCEPT ![c] = Tail(@) ]
    /\ UNCHANGED <<storage, loc, todo, snap, hasBroadcastChannel, hist, chan>>

----------------------------------------------------------------------------
(* Context life cycle *)

\* game.html?tab=N is opened: the shell records the visit, then runs init
Load(c) ==
    /\ ~loc[c].live
    /\ loc' = [ loc EXCEPT ![c] = [ NoLevel EXCEPT !.live = TRUE ] ]
    /\ storage' = JSONstringify(ShellVisit(getState(storage), TabOf(c)))
    /\ todo' = [ todo EXCEPT ![c] = << ReadOp("init") >> ]
    /\ UNCHANGED <<snap, inbox, hasBroadcastChannel, hist, chan>>

\* The tab is closed: its automaton stops, nothing is sent
Close(c) ==
    /\ Idle(c)
    /\ loc' = [ loc EXCEPT ![c] = NoLevel ]
    /\ inbox' = [ inbox EXCEPT ![c] = <<>> ]
    /\ UNCHANGED <<storage, todo, snap, hasBroadcastChannel, hist, chan>>

\* The handler of c ends with these steps; its closure variables become l
Run(c, l, ops) ==
    /\ loc' = [ loc EXCEPT ![c] = l ]
    /\ todo' = [ todo EXCEPT ![c] = ops ]

\* A handler step that starts with a getState() call: the call may write the
\* defaults into the cell
Reading == storage' = getStateStore(storage)

----------------------------------------------------------------------------
(* levels/level3.js *)

L3Init(c) ==
    /\ At(c, "init") /\ TabOf(c) = 3
    /\ Reading
    /\ LET currentState == getState(storage) IN
        Run(c, [ loc[c] EXCEPT
                   !.backtrackTriggered = currentState.tabs[3].backtrackedTo1,
                   !.wallDissolved = currentState.tabs[3].puzzleSolved,
                   !.gameComplete = FALSE,
                   !.actTwoItemPlaced = FALSE,
                   !.actTwoTimer =
                       /\ currentState.meta.gameComplete
                       /\ currentState.tabs[3].puzzleSolved
                       /\ Len(currentState.player.mindFragments) >= 3,
                   !.onExitKeydown = TRUE,
                   !.listening = TRUE ],
            Tail(todo[c]))
    /\ UNCHANGED <<snap, inbox, hasBroadcastChannel, hist, chan>>

\* setOnMove: first contact with the blocked wall
L3TouchWall(c) ==
    /\ Idle(c) /\ TabOf(c) = 3
    /\ ~loc[c].backtrackTriggered /\ ~loc[c].wallDissolved
    /\ Run(c, [ loc[c] EXCEPT !.backtrackTriggered = TRUE ],
           << UpdateTabStateOp(3, [ backtrackedTo1 |-> TRUE ]),
              SendOp("BACKTRACK_TRIGGER", [ targetTab |-> 1 ], 3) >>)
    /\ UNCHANGED <<storage, snap, inbox, hasBroadcastChannel, hist, chan>>

\* REQUIRED_SYMBOLS.every(s => frags.includes(s))
HasAll(frags) == \A s \in FloorSymbols : Includes(frags, s)

\* setOnInteract, code_panel: dissolveWall() when every symbol is there
L3CodePanel(c) ==
    /\ Idle(c) /\ TabOf(c) = 3
    /\ loc[c].backtrackTriggered /\ ~loc[c].wallDissolved
    /\ Reading
    /\ HasAll(getState(storage).player.codeFragments)
    /\ Run(c, [ loc[c] EXCEPT !.wallDissolved = TRUE ],
           << UpdateTabStateOp(3, [ puzzleSolved |-> TRUE ]) >>)
    /\ UNCHANGED <<snap, inbox, hasBroadcastChannel, hist, chan>>

L3ExitKeydown(c) ==
    /\ Idle(c) /\ TabOf(c) = 3
    /\ loc[c].onExitKeydown /\ loc[c].wallDissolved /\ ~loc[c].gameComplete
    /\ Run(c, [ loc[c] EXCEPT !.gameComplete = TRUE, !.onExitKeydown = FALSE ],
           << SendOp("TAB_COMPLETED", [ completedTab |-> 3 ], 3),
              SetOp([ k |-> "gameComplete" ], 3) >>)
    /\ UNCHANGED <<storage, snap, inbox, hasBroadcastChannel, hist, chan>>

\* channel.onMessage: the HUD refresh and the ghost-path check only read
\* placeActTwoItem()
placeActTwoItem(l) == [ l EXCEPT !.actTwoItemPlaced = TRUE ]

L3OnMessage(c) ==
    /\ Idle(c) /\ TabOf(c) = 3 /\ loc[c].listening /\ inbox[c] # <<>>
    /\ LET msg == Head(inbox[c]) IN
        /\ storage' = IF \/ loc[c].backtrackTriggered
                         \/ msg.type = "TAB_COMPLETED" /\ PayloadIs(msg, "completedTab", 3)
                      THEN getStateStore(storage)
                      ELSE storage
        /\ loc' = [ loc EXCEPT ![c] =
                      IF msg.type = "MIND_FRAGMENTS_COLLECTED" /\ loc[c].gameComplete
                      THEN placeActTwoItem(@) ELSE @ ]
    /\ inbox' = [ inbox EXCEPT ![c] = Tail(@) ]
    /\ UNCHANGED <<todo, snap, hasBroadcastChannel, hist, chan>>

\* visibilitychange listener of tab 3, the tab shown again: the mind
\* fragments were collected while it was hidden
L3Visibility(c) ==
    /\ Idle(c) /\ TabOf(c) = 3 /\ loc[c].listening
    /\ Reading
    /\ loc[c].gameComplete /\ ~loc[c].actTwoItemPlaced
    /\ Len(getState(storage).player.mindFragments) >= 3
    /\ Run(c, placeActTwoItem(loc[c]), <<>>)
    /\ UNCHANGED <<snap, inbox, hasBroadcastChannel, hist, chan>>

\* The 3 s timer that init sets when the fragments are collected at load
L3ActTwoTimer(c) ==
    /\ Idle(c) /\ TabOf(c) = 3 /\ loc[c].actTwoTimer
    /\ Run(c, [ placeActTwoItem(loc[c]) EXCEPT !.actTwoTimer = FALSE ], <<>>)
    /\ UNCHANGED <<storage, snap, inbox, hasBroadcastChannel, hist, chan>>

----------------------------------------------------------------------------
(* levels/level1.js *)

\* placeBonusSymbol() that persists the flag as the opposite of what the
\* closure variable held
placeBonusSymbolOpsToggles(l) ==
    IF l.bonusSymbolCollected
    THEN <<>>
    ELSE << UpdateTabStateOp(1, [ bonusSymbolAvailable |-> ~l.bonusSymbolPlaced ]) >>

\* placeBonusSymbol(): the closure variables after it, and the store write
\* it makes
placeBonusSymbol(l) ==
    IF l.bonusSymbolCollected
    THEN l
    ELSE [ l EXCEPT !.bonusSymbolPlaced = TRUE,
                    !.interactables = "bonus",
                    !.onMove = "bonus" ]
placeBonusSymbolOps(l) ==
    IF l.bonusSymbolCollected
    THEN <<>>
    ELSE << UpdateTabStateOp(1, [ bonusSymbolAvailable |-> TRUE ]) >>

\* _enter3D(): persists the phase (the 3D scene itself is not modelled)
enter3DOps == << UpdateTabStateOp(1, [ state |-> "3d" ]) >>

\* init, to the end of the branch it takes; setupReturnVisit() reads the
\* store again, which is the next step of the return branch
L1Init(c) ==
    /\ At(c, "init") /\ TabOf(c) = 1
    /\ Reading
    /\ LET currentState == getState(storage)
           tabData == currentState.tabs[1]
           isReturn == tabData.state = "illuminated"
           is3DMode == currentState.meta.gameComplete /\ tabData.visitCount >= 2
           alreadyHasFlashlight == currentState.player.hasFlashlight
           l0 == [ loc[c] EXCEPT
                     !.bonusSymbolPlaced = IsTrue(tabData, "bonusSymbolAvailable"),
                     !.bonusSymbolCollected = IsTrue(tabData, "bonusSymbol"),
                     !.listening = TRUE ]
           first == [ l0 EXCEPT
                     !.exitUnlocked = alreadyHasFlashlight,
                     !.interactables = IF alreadyHasFlashlight THEN "exit" ELSE "light",
                     !.onMove = IF alreadyHasFlashlight THEN "none" ELSE "light",
                     !.onInteract = "exit",
                     !.firstVisitKeydownHandler = TRUE ]
       IN  IF is3DMode
           THEN Run(c, [ loc[c] EXCEPT !.is3DMode = TRUE ], enter3DOps)
           ELSE IF isReturn
           THEN Run(c, l0, << ReadOp("setupReturnVisit") >>)
           ELSE IF first.bonusSymbolPlaced /\ ~first.bonusSymbolCollected
           THEN Run(c, placeBonusSymbol(first), placeBonusSymbolOps(first))
           ELSE Run(c, first, <<>>)
    /\ UNCHANGED <<snap, inbox, hasBroadcastChannel, hist, chan>>

\* setupReturnVisit(): the floor symbols not yet in player.codeFragments
L1SetupReturnVisit(c) ==
    /\ At(c, "setupReturnVisit")
    /\ Reading
    /\ LET collected == getState(storage).player.codeFragments IN
        Run(c, [ loc[c] EXCEPT
                   !.symbolInteractables =
                       { s \in FloorSymbols : ~Includes(collected, s) },
                   !.interactables = "symbols",
                   !.onInteract = "floor_symbol",
                   !.onMove = "none" ],
            Tail(todo[c]))
    /\ UNCHANGED <<snap, inbox, hasBroadcastChannel, hist, chan>>

\* setOnMove, first visit: walking onto the light picks up the flashlight
L1PickupLight(c) ==
    /\ Idle(c) /\ TabOf(c) = 1 /\ loc[c].onMove = "light"
    /\ Reading
    /\ ~getState(storage).player.hasFlashlight
    /\ Run(c, [ loc[c] EXCEPT !.exitUnlocked = TRUE, !.interactables = "exit" ],
           << SetOp([ k |-> "flashlight" ], 1),
              UpdateTabStateOp(1, [ puzzleSolved |-> TRUE ]) >>)
    /\ UNCHANGED <<snap, inbox, hasBroadcastChannel, hist, chan>>

\* onExitKeydown, first visit: opens tab 2
L1ExitKeydown(c) ==
    /\ Idle(c) /\ TabOf(c) = 1
    /\ loc[c].firstVisitKeydownHandler /\ loc[c].exitUnlocked
    /\ Run(c, [ loc[c] EXCEPT !.firstVisitKeydownHandler = FALSE ],
           << SendOp("TAB_COMPLETED", [ completedTab |-> 1 ], 1),
              SetOp([ k |-> "unlock", n |-> 2 ], 1) >>)
    /\ UNCHANGED <<storage, snap, inbox, hasBroadcastChannel, hist, chan>>

\* setOnMove of placeBonusSymbol: walking onto the bonus symbol collects it
L1CollectBonus(c) ==
    /\ Idle(c) /\ TabOf(c) = 1
    /\ loc[c].onMove = "bonus" /\ ~loc[c].bonusSymbolCollected
    /\ Run(c, [ loc[c] EXCEPT !.bonusSymbolCollected = TRUE,
                              !.interactables = "none" ],
           << UpdateTabStateOp(1, [ bonusSymbol |-> TRUE ]),
              SendOp("NEW_SYMBOL_FOUND", [ fromTab |-> 1 ], 1) >>)
    /\ UNCHANGED <<storage, snap, inbox, hasBroadcastChannel, hist, chan>>

\* setOnInteract of setupReturnVisit: a floor symbol is collected
L1CollectSymbol(c, s) ==
    /\ Idle(c) /\ TabOf(c) = 1
    /\ loc[c].onInteract = "floor_symbol" /\ loc[c].interactables = "symbols"
    /\ s \in loc[c].symbolInteractables
    /\ Run(c, [ loc[c] EXCEPT !.symbolInteractables = @ \ {s} ],
           << SetOp([ k |-> "pushCode", symbol |-> s ], 1),
              ReadOp("collected") >>)
    /\ UNCHANGED <<storage, snap, inbox, hasBroadcastChannel, hist, chan>>

\* ... its end: frags = getState().player.codeFragments; all collected?
L1Collected(c) ==
    /\ At(c, "collected")
    /\ Reading
    /\ LET frags == getState(storage).player.codeFragments IN
        Run(c, loc[c],
            IF Len(frags) >= NumFloorSymbols
            THEN << SendOp("BACKTRACK_TRIGGER", [ targetTab |-> 3 ], 1) >>
            ELSE <<>>)
    /\ UNCHANGED <<snap, inbox, hasBroadcastChannel, hist, chan>>

\* tryEnter3D(): reads the store unless this context already entered 3D
tryEnter3D(c) ==
    IF loc[c].entered3D
    THEN /\ UNCHANGED storage
         /\ Run(c, loc[c], <<>>)
    ELSE /\ Reading
         /\ IF getState(storage).meta.gameComplete
            THEN Run(c, [ loc[c] EXCEPT !.entered3D = TRUE ], enter3DOps)
            ELSE Run(c, loc[c], <<>>)

\* The test of the onMessage callbacks without the comparison of msg.type
IsBacktrackToAnyType(msg, tab) == PayloadIs(msg, "targetTab", tab)

IsBacktrackTo(msg, tab) ==
    msg.type = "BACKTRACK_TRIGGER" /\ PayloadIs(msg, "targetTab", tab)
IsTabCompleted(msg, tab) ==
    msg.type = "TAB_COMPLETED" /\ PayloadIs(msg, "completedTab", tab)

\* channel.onMessage callback of tab 1
L1OnMessage(c) ==
    /\ Idle(c) /\ TabOf(c) = 1 /\ loc[c].listening /\ inbox[c] # <<>>
    /\ inbox' = [ inbox EXCEPT ![c] = Tail(@) ]
    /\ LET msg == Head(inbox[c]) IN
        IF IsBacktrackTo(msg, 1) /\ PayloadIs(msg, "reason", "midpuzzle")
        THEN /\ Run(c, placeBonusSymbol(loc[c]), placeBonusSymbolOps(loc[c]))
             /\ UNCHANGED storage
        ELSE IF IsBacktrackTo(msg, 1)
        THEN /\ Run(c, [ loc[c] EXCEPT !.firstVisitKeydownHandler = FALSE ],
                    << UpdateTabStateOp(1, [ state |-> "illuminated",
                                             floorRevealed |-> TRUE ]),
                       ReadOp("setupReturnVisit") >>)
             /\ UNCHANGED storage
        ELSE IF IsTabCompleted(msg, 3)
        THEN tryEnter3D(c)
        ELSE /\ Run(c, loc[c], <<>>)
             /\ UNCHANGED storage
    /\ UNCHANGED <<snap, hasBroadcastChannel, hist, chan>>

\* visibilitychange listener of tab 1, the tab becoming visible
L1Visibility(c) ==
    /\ Idle(c) /\ TabOf(c) = 1 /\ loc[c].listening
    /\ ~loc[c].entered3D
    /\ getState(storage).meta.gameComplete
    /\ tryEnter3D(c)
    /\ UNCHANGED <<snap, inbox, hasBroadcastChannel, hist, chan>>

----------------------------------------------------------------------------
\* _enter3D() after it has persisted the phase: the scene is built with a
\* mesh for every mind fragment that is not collected yet
MIND_FRAGMENTS == 1 .. 3

L1Enter3DScene(c) ==
    /\ Idle(c) /\ TabOf(c) = 1
    /\ loc[c].is3DMode \/ loc[c].entered3D
    /\ ~loc[c].scene
    /\ Reading
    /\ LET alreadyCollected == getState(storage).player.mindFragments IN
        Run(c, [ loc[c] EXCEPT
                   !.scene = TRUE,
                   !.mindFragMeshes =
                       { id \in MIND_FRAGMENTS : ~Includes(alreadyCollected, id) } ],
            <<>>)
    /\ UNCHANGED <<snap, inbox, hasBroadcastChannel, hist, chan>>

\* The animation loop finds the camera next to a mind fragment
L1CollectMind(c, id) ==
    /\ Idle(c) /\ TabOf(c) = 1
    /\ loc[c].scene /\ id \in loc[c].mindFragMeshes
    /\ Run(c, [ loc[c] EXCEPT !.mindFragMeshes = @ \ { id } ],
           << SetOp([ k |-> "pushMind", id |-> id ], 1),
              ReadOp("fragCount") >>)
    /\ UNCHANGED <<storage, snap, inbox, hasBroadcastChannel, hist, chan>>

\* ... and, the fragment persisted, counts the fragments in the store
L1FragCount(c) ==
    /\ At(c, "fragCount")
    /\ Reading
    /\ LET fragCount == Len(getState(storage).player.mindFragments) IN
        Run(c, loc[c],
            IF fragCount >= 3
            THEN << UpdateTabStateOp(1, [ mindComplete |-> TRUE ]),
                    SendOp("MIND_FRAGMENTS_COLLECTED", [ fromTab |-> 1 ], 1) >>
            ELSE <<>>)
    /\ UNCHANGED <<snap, inbox, hasBroadcastChannel, hist, chan>>

(* levels/level2.js *)

CORRECT_SEQUENCE == << "B", "D", "A", "C" >>
Labels == { "A", "B", "C", "D" }

L2InitLevel(l, currentState) ==
    [ l EXCEPT
        !.activatedSequence = <<>>,
        !.puzzleSolved = currentState.tabs[2].puzzleSolved,
        !.midPuzzleResolved = IsTrue(currentState.tabs[1], "bonusSymbol"),
        !.symbolsLocked = FALSE,
        !.onExitKeydown = TRUE,
        !.listening = TRUE ]

L2Init(c) ==
    /\ At(c, "init") /\ TabOf(c) = 2
    /\ Reading
    /\ Run(c, L2InitLevel(loc[c], getState(storage)), Tail(todo[c]))
    /\ UNCHANGED <<snap, inbox, hasBroadcastChannel, hist, chan>>

\* activatedSequence.every((l, i) => l === expectedSoFar[i])
IsCorrectSoFar(seq) == \A i \in 1 .. Len(seq) : seq[i] = CORRECT_SEQUENCE[i]

\* setOnInteract, a symbol that is not activated yet, symbols not locked:
\* the closure variables after the handler, and what it sends and stores
L2InteractLevel(l, label) ==
    LET seq == Append(l.activatedSequence, label) IN
        IF ~IsCorrectSoFar(seq)
        THEN [ l EXCEPT !.activatedSequence = <<>> ]
        ELSE [ l EXCEPT
                 !.activatedSequence = seq,
                 !.symbolsLocked = Len(seq) = 2 /\ ~l.midPuzzleResolved,
                 !.puzzleSolved = Len(seq) = Len(CORRECT_SEQUENCE) ]

L2InteractOps(l, label) ==
    LET seq == Append(l.activatedSequence, label)
        lock == Len(seq) = 2 /\ ~l.midPuzzleResolved
        solved == Len(seq) = Len(CORRECT_SEQUENCE)
    IN  IF ~IsCorrectSoFar(seq)
        THEN <<>>
        ELSE (IF lock
              THEN << SendOp("BACKTRACK_TRIGGER",
                             [ targetTab |-> 1, reason |-> "midpuzzle" ], 2) >>
              ELSE <<>>)
             \o
             (IF solved
              THEN << UpdateTabStateOp(2, [ puzzleSolved |-> TRUE ]),
                      SendOp("PUZZLE_SOLVED", [ solvedTab |-> 2 ], 2) >>
              ELSE <<>>)

L2Interact(c, label) ==
    /\ Idle(c) /\ TabOf(c) = 2 /\ loc[c].listening
    /\ ~loc[c].puzzleSolved /\ ~loc[c].symbolsLocked
    /\ ~Includes(loc[c].activatedSequence, label)
    /\ Run(c, L2InteractLevel(loc[c], label), L2InteractOps(loc[c], label))
    /\ UNCHANGED <<storage, snap, inbox, hasBroadcastChannel, hist, chan>>

\* onExitKeydown: opens tab 3
L2ExitKeydown(c) ==
    /\ Idle(c) /\ TabOf(c) = 2
    /\ loc[c].onExitKeydown /\ loc[c].puzzleSolved
    /\ Run(c, [ loc[c] EXCEPT !.onExitKeydown = FALSE ],
           << SendOp("TAB_COMPLETED", [ completedTab |-> 2 ], 2),
              SetOp([ k |-> "unlock", n |-> 3 ], 2) >>)
    /\ UNCHANGED <<storage, snap, inbox, hasBroadcastChannel, hist, chan>>

\* unlockSymbols()
\* unlockSymbols() that also forgets the activated symbols
unlockSymbolsResets(l) ==
    [ l EXCEPT !.symbolsLocked = FALSE, !.activatedSequence = <<>> ]

unlockSymbols(l) == [ l EXCEPT !.symbolsLocked = FALSE ]

\* buildInteractables() of level 2: the four symbols, and the exit door to
\* tab 3 once the puzzle is solved
L2Interactables(l) ==
    Labels \cup (IF l.puzzleSolved THEN { "exit_door" } ELSE {})

\* channel.onMessage callback of tab 2
L2OnMessage(c) ==
    /\ Idle(c) /\ TabOf(c) = 2 /\ loc[c].listening /\ inbox[c] # <<>>
    /\ inbox' = [ inbox EXCEPT ![c] = Tail(@) ]
    /\ LET msg == Head(inbox[c]) IN
        IF msg.type = "NEW_SYMBOL_FOUND"
        THEN Run(c, unlockSymbols(loc[c]), <<>>)
        ELSE Run(c, loc[c], <<>>)
    /\ UNCHANGED <<storage, snap, hasBroadcastChannel, hist, chan>>

\* visibilitychange listener of tab 2, the tab becoming visible
L2Visibility(c) ==
    /\ Idle(c) /\ TabOf(c) = 2 /\ loc[c].listening
    /\ Reading
    /\ loc[c].symbolsLocked
    /\ IsTrue(getState(storage).tabs[1], "bonusSymbol")
    /\ Run(c, unlockSymbols(loc[c]), <<>>)
    /\ UNCHANGED <<snap, inbox, hasBroadcastChannel, hist, chan>>

----------------------------------------------------------------------------
(* Callers of the store: the setState calls of the levels, issued in any   *)
(* order by contexts that run no level                                     *)

\* The updaters of levels 1 to 4 that the callers hand to setState
StoreUpdaters ==
    { [ k |-> "merge", id |-> 3, updates |-> [ backtrackedTo1 |-> TRUE ] ],
      [ k |-> "unlock", n |-> 2 ],
      [ k |-> "gameComplete" ],
      [ k |-> "actTwoComplete" ],
      [ k |-> "pushCode", symbol |-> 1 ],
      [ k |-> "pushCode", symbol |-> 2 ],
      [ k |-> "pushMind", id |-> 1 ],
      [ k |-> "pushMemory", id |-> 1 ] }

\* state.setState(updater, fromTab) is called in context c
Call(c, upd) ==
    /\ Idle(c)
    /\ Len(hist.calls) < MaxCalls
    /\ todo' = [ todo EXCEPT ![c] = << SetOp(upd, TabOf(c)) >> ]
    /\ hist' = [ hist EXCEPT !.calls = Append(@, [ ctx |-> c, upd |-> upd ]) ]
    /\ UNCHANGED <<storage, loc, snap, inbox, hasBroadcastChannel, chan>>

----------------------------------------------------------------------------
(* levels/level4.js *)

MEMORY_FRAGMENTS == { "mem_cube", "mem_diamonds", "mem_sphere" }

\* init: the scene holds the fragments that are not collected yet; level 4
\* registers no listener on the channel or on visibilitychange
L4Init(c) ==
    /\ At(c, "init") /\ TabOf(c) = 4
    /\ Reading
    /\ LET alreadyCollected == getState(storage).tabs[4].fragmentsCollected IN
        Run(c, [ loc[c] EXCEPT
                   !.scene = TRUE,
                   !.fragments =
                       { id \in MEMORY_FRAGMENTS : ~Includes(alreadyCollected, id) },
                   !.conclusionTriggered = FALSE,
                   !.conclusionTimer = FALSE ],
            Tail(todo[c]))
    /\ UNCHANGED <<snap, inbox, hasBroadcastChannel, hist, chan>>

\* animate: the camera is within COLLECT_RADIUS of a fragment
L4Collect(c, id) ==
    /\ Idle(c) /\ TabOf(c) = 4
    /\ loc[c].scene /\ id \in loc[c].fragments
    /\ Run(c, [ loc[c] EXCEPT !.fragments = @ \ { id } ],
           << SetOp([ k |-> "pushMemory", id |-> id ], 4),
              ReadOp("collected") >>)
    /\ UNCHANGED <<storage, snap, inbox, hasBroadcastChannel, hist, chan>>

\* ... and, the fragment persisted, counts the fragments in the store
L4Collected(c) ==
    /\ At(c, "collected")
    /\ Reading
    /\ LET collected == getState(storage).tabs[4].fragmentsCollected IN
        Run(c, [ loc[c] EXCEPT
                   !.conclusionTimer = @ \/ Len(collected) >= 3 ],
            Tail(todo[c]))
    /\ UNCHANGED <<snap, inbox, hasBroadcastChannel, hist, chan>>

\* The 3 s timer fires: triggerConclusion()
L4ConclusionTimer(c) ==
    /\ Idle(c) /\ TabOf(c) = 4 /\ loc[c].conclusionTimer
    /\ IF loc[c].conclusionTriggered
       THEN Run(c, [ loc[c] EXCEPT !.conclusionTimer = FALSE ], <<>>)
       ELSE Run(c, [ loc[c] EXCEPT !.conclusionTimer = FALSE,
                                   !.conclusionTriggered = TRUE ],
                << SetOp([ k |-> "actTwoComplete" ], 4),
                   SendOp("GAME_COMPLETE_FINAL", [ fromTab |-> 4 ], 4) >>)
    /\ UNCHANGED <<storage, snap, inbox, hasBroadcastChannel, hist, chan>>

(* The specifications *)

NoHistory == [ base |-> defaultState, calls |-> <<>> ]

\* No tab is open and nothing was ever stored
InitClosed ==
    /\ storage = Absent
    /\ loc = [ c \in Ctx |-> NoLevel ]
    /\ todo = [ c \in Ctx |-> <<>> ]
    /\ snap = [ c \in Ctx |-> NoSnap ]
    /\ inbox = [ c \in Ctx |-> <<>> ]
    /\ hist = NoHistory
    /\ chan = NoChannel

\* Tabs 3 and 1, every setState call one step, on a host without
\* BroadcastChannel
Init == InitClosed /\ hasBroadcastChannel = FALSE

Next ==
    \E c \in LoopCtx :
        \/ Load(c)
        \/ SetState(c)
        \/ ChannelSend(c)
        \/ Miss(c)
        \/ L1Init(c)
        \/ L1SetupReturnVisit(c)
        \/ L1PickupLight(c)
        \/ L1ExitKeydown(c)
        \/ \E s \in FloorSymbols : L1CollectSymbol(c, s)
        \/ L1Collected(c)
        \/ L1OnMessage(c)
        \/ L1Visibility(c)
        \/ L3Init(c)
        \/ L3TouchWall(c)
        \/ L3CodePanel(c)
        \/ L3ExitKeydown(c)
        \/ L3OnMessage(c)

Spec == Init /\ [][Next]_vars

\* Tabs 1 and 2, every setState call one step
NextPattern ==
    \E c \in PatternCtx :
        \/ Load(c)
        \/ SetState(c)
        \/ ChannelSend(c)
        \/ Miss(c)
        \/ L1Init(c)
        \/ L1PickupLight(c)
        \/ L1ExitKeydown(c)
        \/ L1CollectBonus(c)
        \/ L1OnMessage(c)
        \/ L2Init(c)
        \/ \E label \in Labels : L2Interact(c, label)
        \/ L2ExitKeydown(c)
        \/ L2OnMessage(c)
        \/ L2Visibility(c)

SpecPattern == Init /\ [][NextPattern]_vars

\* Tabs 3 and 1, the read and the write of setState as separate steps, with
\* and without BroadcastChannel
InitRace == InitClosed /\ hasBroadcastChannel \in BOOLEAN

NextRace ==
    \E c \in RaceCtx :
        \/ Load(c)
        \/ SetStateRead(c)
        \/ SetStateWrite(c)
        \/ ChannelSend(c)
        \/ Miss(c)
        \/ L1Init(c)
        \/ L1SetupReturnVisit(c)
        \/ L1PickupLight(c)
        \/ L1ExitKeydown(c)
        \/ \E s \in FloorSymbols : L1CollectSymbol(c, s)
        \/ L1Collected(c)
        \/ L1OnMessage(c)
        \/ L1Visibility(c)
        \/ L3Init(c)
        \/ L3TouchWall(c)
        \/ L3CodePanel(c)
        \/ L3ExitKeydown(c)
        \/ L3OnMessage(c)

SpecRace == InitRace /\ [][NextRace]_vars

\* Tabs 3, 1 and 2, one context each, where some code of the page (a later
\* build of the game) sends an envelope type that channel.js does not know;
\* the tab-2 context stands at the start of its puzzle and listens
VALID_TYPES ==
    { "STATE_CHANGE", "TAB_COMPLETED", "BACKTRACK_TRIGGER", "PUZZLE_SOLVED",
      "NARRATOR_TRIGGER", "NEW_SYMBOL_FOUND", "MIND_FRAGMENTS_COLLECTED",
      "GAME_COMPLETE_FINAL" }
ForwardCtx == { 1, 2, 4 }
UnknownType == "TAB2_REOPENED"

\* channel.send(type, payload, fromTab) is called in context c with a type
\* outside VALID_TYPES and a payload that names tabs as the known types do
SendUnknown(c) ==
    /\ Idle(c)
    /\ UnknownType \notin VALID_TYPES
    /\ todo' = [ todo EXCEPT ![c] =
                   << SendOp(UnknownType,
                             [ targetTab |-> 1, completedTab |-> 3 ], TabOf(c)) >> ]
    /\ UNCHANGED <<storage, loc, snap, inbox, hasBroadcastChannel, hist, chan>>

NextForward ==
    \E c \in ForwardCtx :
        \/ Load(c)
        \/ SetState(c)
        \/ ChannelSend(c)
        \/ SendUnknown(c)
        \/ L1Init(c)
        \/ L1SetupReturnVisit(c)
        \/ L1PickupLight(c)
        \/ L1ExitKeydown(c)
        \/ \E s \in FloorSymbols : L1CollectSymbol(c, s)
        \/ L1Collected(c)
        \/ L1OnMessage(c)
        \/ L2Init(c)
        \/ L2OnMessage(c)
        \/ L3Init(c)
        \/ L3TouchWall(c)
        \/ L3CodePanel(c)
        \/ L3ExitKeydown(c)
        \/ L3OnMessage(c)

SpecForward == Init /\ [][NextForward]_vars

\* Act two: the document that act one has left (tab 1 visited once and
\* illuminated, the game complete), then tab 1 opened again, which starts
\* in 3D, and tab 2 opened
ActOneDoc ==
    [ defaultState EXCEPT
        !.tabs[1].visitCount = 1, !.tabs[1].state = "illuminated",
        !.tabs[1].floorRevealed = TRUE,
        !.tabs[3].visitCount = 1, !.tabs[3].state = "visited",
        !.tabs[3].puzzleSolved = TRUE, !.tabs[3].backtrackedTo1 = TRUE,
        !.player.codeFragments = << 1, 2 >>,
        !.meta.gameComplete = TRUE ]
ActTwoCtx == { 2, 4 }

InitActTwo ==
    /\ storage = JSONstringify(ActOneDoc)
    /\ loc = [ c \in Ctx |-> NoLevel ]
    /\ todo = [ c \in Ctx |-> <<>> ]
    /\ snap = [ c \in Ctx |-> NoSnap ]
    /\ inbox = [ c \in Ctx |-> <<>> ]
    /\ hasBroadcastChannel \in BOOLEAN
    /\ hist = NoHistory
    /\ chan = NoChannel

NextActTwo ==
    \E c \in ActTwoCtx :
        \/ Load(c)
        \/ SetState(c)
        \/ ChannelSend(c)
        \/ L1Init(c)
        \/ L1Enter3DScene(c)
        \/ \E id \in MIND_FRAGMENTS : L1CollectMind(c, id)
        \/ L1FragCount(c)
        \/ L2Init(c)
        \/ \E label \in Labels : L2Interact(c, label)
        \/ L2OnMessage(c)

SpecActTwo == InitActTwo /\ [][NextActTwo]_vars

(* engine/narrator.js, and the page around the levels *)

\* The keys of NARRATOR_LINES
NARRATOR_LINES ==
    { "tab1_enter", "tab1_light", "tab2_enter", "tab2_seed", "tab3_enter",
      "tab3_block", "tab3_backtrack", "tab1_return", "tab3_unlock",
      "tab3_complete", "tab1_3d", "tab1_mind1", "tab1_mind2", "tab1_mind3",
      "tab2_midpuzzle", "tab2_reopen", "tab2_exit4", "tab3_ghost",
      "tab4_enter", "tab4_mem1", "tab4_mem2", "tab4_mem3", "final_rooms",
      "final_iam" }

\* _shownLines.add(id)
SetAdd(set, id) == IF Includes(set, id) THEN set ELSE Push(set, id)

\* triggerNarrator(id) without the early return on a running animation
DisplaysWhileAnimating(l, id) ==
    /\ id \in NARRATOR_LINES
    /\ ~Includes(l.shownLines, id)

\* triggerNarrator(id) gets past its three early returns and plays the line
Displays(l, id) ==
    /\ id \in NARRATOR_LINES
    /\ ~Includes(l.shownLines, id)
    /\ ~l.isAnimating

\* triggerNarrator(id), up to the start of the animation
triggerNarrator(l, id) ==
    IF Displays(l, id)
    THEN [ l EXCEPT !.shownLines = SetAdd(@, id), !.isAnimating = TRUE ]
    ELSE l

\* setShownLines(arr), arr an array
RECURSIVE setShownLines(_, _)
setShownLines(l, arr) ==
    IF arr = <<>>
    THEN l
    ELSE setShownLines([ l EXCEPT !.shownLines = SetAdd(@, Head(arr)) ],
                       Tail(arr))

\* getShownLines()
getShownLines(l) == l.shownLines

\* The page is not part of the sources. It is taken to do what narrator.js
\* says of its callers: it hands the persisted log to setShownLines before
\* init runs, and writes getShownLines() back once a line was triggered.
\* Both are taken as one step with the handler that triggers the line, and
\* the write as additive, so that no log entry of another context is lost.
ShellLoadShown(l, doc) == setShownLines(l, doc.narrative.shown)

RECURSIVE ShellPersistShown(_, _)
ShellPersistShown(doc, ids) ==
    IF ids = <<>>
    THEN doc
    ELSE ShellPersistShown(
             [ doc EXCEPT !.narrative.shown = SetAdd(@, Head(ids)) ],
             Tail(ids))

PLANTED_SEED_LABEL == "B"

\* The lines the interaction handler of tab 2 triggers, in call order:
\* tab2_seed on the planted symbol, tab2_midpuzzle when the symbols lock
L2InteractLines(l, label) ==
    (IF label = PLANTED_SEED_LABEL THEN << "tab2_seed" >> ELSE <<>>)
    \o
    (IF L2InteractLevel(l, label).symbolsLocked
     THEN << "tab2_midpuzzle" >> ELSE <<>>)

\* triggerNarrator for each id of the sequence, in order
RECURSIVE triggerAll(_, _)
triggerAll(l, ids) ==
    IF ids = <<>> THEN l
    ELSE triggerAll(triggerNarrator(l, Head(ids)), Tail(ids))

\* The displays of these calls, appended to the history h
RECURSIVE DisplayedAll(_, _, _, _)
DisplayedAll(h, c, l, ids) ==
    IF ids = <<>> THEN h
    ELSE DisplayedAll(
             IF Displays(l, Head(ids))
             THEN [ h EXCEPT !.displayed =
                        Append(@, [ ctx |-> c, id |-> Head(ids) ]) ]
             ELSE h,
             c, triggerNarrator(l, Head(ids)), Tail(ids))

\* init of tab 2 with its entry line: the page loads the log, init sets the
\* closure variables up and triggers the line, the page persists the log
L2InitNarrator(c) ==
    /\ At(c, "init") /\ TabOf(c) = 2
    /\ LET currentState == getState(storage)
           synced == ShellLoadShown(loc[c], currentState)
           ids == << "tab2_enter" >>
           l == triggerAll(L2InitLevel(synced, currentState), ids)
       IN  /\ Run(c, l, Tail(todo[c]))
           /\ storage' = JSONstringify(ShellPersistShown(currentState,
                                                         getShownLines(l)))
           /\ hist' = DisplayedAll(hist, c, synced, ids)
    /\ UNCHANGED <<snap, inbox, hasBroadcastChannel, chan>>

\* The interaction handler of tab 2 with its lines; the page persists the
\* log after the handler
L2InteractNarrator(c, label) ==
    /\ Idle(c) /\ TabOf(c) = 2 /\ loc[c].listening
    /\ ~loc[c].puzzleSolved /\ ~loc[c].symbolsLocked
    /\ ~Includes(loc[c].activatedSequence, label)
    /\ LET ids == L2InteractLines(loc[c], label)
           l == triggerAll(L2InteractLevel(loc[c], label), ids)
       IN  /\ Run(c, l, L2InteractOps(loc[c], label))
           /\ storage' = JSONstringify(ShellPersistShown(getState(storage),
                                                         getShownLines(l)))
           /\ hist' = DisplayedAll(hist, c, loc[c], ids)
    /\ UNCHANGED <<snap, inbox, hasBroadcastChannel, chan>>

\* The async tail of triggerNarrator: reveal, hold, fade out, clean up
AnimationEnds(c) ==
    /\ loc[c].live /\ loc[c].isAnimating
    /\ loc' = [ loc EXCEPT ![c].isAnimating = FALSE ]
    /\ UNCHANGED <<storage, todo, snap, inbox, hasBroadcastChannel, hist, chan>>

\* Tab 2 in two contexts, which are opened, closed and opened again; with
\* tab 1 closed the symbols of tab 2 stay locked after the second one
NarratorCtx == { 4, 5 }

InitNarrated ==
    /\ storage = Absent
    /\ loc = [ c \in Ctx |-> NoLevel ]
    /\ todo = [ c \in Ctx |-> <<>> ]
    /\ snap = [ c \in Ctx |-> NoSnap ]
    /\ inbox = [ c \in Ctx |-> <<>> ]
    /\ hasBroadcastChannel \in BOOLEAN
    /\ hist = [ displayed |-> <<>> ]
    /\ chan = NoChannel

NextNarrated ==
    \/ \E c \in NarratorCtx : Load(c)
    \/ \E c \in NarratorCtx : Close(c)
    \/ \E c \in NarratorCtx : L2InitNarrator(c)
    \/ \E c \in NarratorCtx, label \in Labels : L2InteractNarrator(c, label)
    \/ \E c \in NarratorCtx : ChannelSend(c)
    \/ \E c \in NarratorCtx : L2OnMessage(c)
    \/ \E c \in NarratorCtx : AnimationEnds(c)

SpecNarrated == InitNarrated /\ [][NextNarrated]_vars

(* The audio functions of engine/favicon.js *)

\* stopLofiMusic()
stopLofiMusic(a) ==
    [ a EXCEPT !.lofiRunning = FALSE,
               !.lofiTimerId = FALSE,
               !.cleanups = IF a.lofiMaster # 0 THEN @ + 1 ELSE @ ]

\* playLofiMusic() gets past its two early returns
StartsLofi(a) == a.ctx /\ ~a.lofiRunning

\* playLofiMusic(), with the first run of loop()
playLofiMusic(a) ==
    IF ~StartsLofi(a)
    THEN a
    ELSE [ stopLofiMusic(a) EXCEPT
             !.created = @ + 1,
             !.lofiMaster = a.created + 1,
             !.lofiRunning = TRUE,
             !.lofiTimerId = TRUE ]

\* stopAmbient()
stopAmbient(a) == [ a EXCEPT !.currentAmbientTab = 0, !.ambientOsc = FALSE ]

\* playAmbient(tabId), tabId a key of TAB_FREQ
playAmbient(a, tabId) ==
    IF ~a.ctx \/ (a.currentAmbientTab = tabId /\ a.ambientOsc)
    THEN a
    ELSE [ stopAmbient(a) EXCEPT !.currentAmbientTab = tabId,
                                 !.ambientOsc = TRUE ]

\* if (_musicStarter && !_silenced) _musicStarter(), the starter being the
\* one every level registers: () => audio.playLofiMusic()
fireMusicStarter(a) ==
    IF a.musicStarter /\ ~a.silenced THEN playLofiMusic(a) ELSE a

\* initAudio()
initAudio(a) == fireMusicStarter([ a EXCEPT !.ctx = TRUE, !.musicBus = TRUE ])

\* The visibilitychange listener of setupVisibilityHandling()
visibilitychange(a, visible) ==
    LET b == [ a EXCEPT !.tabVisible = visible ] IN
        IF visible /\ b.ctx THEN fireMusicStarter(b) ELSE b

\* silenceAll()
silenceAll(a) ==
    stopAmbient(stopLofiMusic([ a EXCEPT !.silenced = TRUE,
                                         !.musicStarter = FALSE ]))

\* A level starts its soundtrack: audio.playLofiMusic();
\* audio.registerMusicStarter(() => audio.playLofiMusic())
levelMusic(a) == [ playLofiMusic(a) EXCEPT !.musicStarter = TRUE ]

\* The 200 ms timer of stopLofiMusic fires: it disconnects and nulls what
\* lofiMaster holds at that time
cleanupTimer(a) ==
    [ a EXCEPT !.disconnected = IF a.lofiMaster # 0
                                THEN @ \cup { a.lofiMaster } ELSE @,
               !.lofiMaster = 0,
               !.cleanups = @ - 1 ]

\* The timer of loop() fires: with lofiMaster null the scheduling throws
\* and loop() is not scheduled again
loopTimer(a) ==
    IF a.lofiMaster = 0 THEN [ a EXCEPT !.lofiTimerId = FALSE ] ELSE a

\* Gain nodes that playLofiMusic creates in one run, and cleanup timers
\* pending at one time
MaxPlays == 3
MaxCleanups == 2

AudioCtx == { 2 }

\* The audio module of c becomes b
Audio(c, b) ==
    /\ loc[c].live
    /\ b.created <= MaxPlays /\ b.cleanups <= MaxCleanups
    /\ loc' = [ loc EXCEPT ![c].audio = b ]
    /\ UNCHANGED <<storage, todo, snap, inbox, hasBroadcastChannel, hist, chan>>

\* The page: a user gesture, the tab hidden or shown, the conclusion
InitAudio(c) == Audio(c, initAudio(loc[c].audio))
VisibilityChange(c, visible) ==
    /\ loc[c].audio.tabVisible # visible
    /\ Audio(c, visibilitychange(loc[c].audio, visible))
SilenceAll(c) == Audio(c, silenceAll(loc[c].audio))
StopLofiMusic(c) == Audio(c, stopLofiMusic(loc[c].audio))

\* The levels: init of tabs 1 to 3 and setupReturnVisit of tab 1, which
\* also runs when BACKTRACK_TRIGGER arrives; init and the conclusion of tab 4
LevelMusic(c) == Audio(c, levelMusic(loc[c].audio))
LevelAmbient(c) == Audio(c, playAmbient(loc[c].audio, 1))
StopAmbient(c) ==
    /\ loc[c].audio.ambientOsc
    /\ Audio(c, stopAmbient(loc[c].audio))

\* The timers
CleanupTimer(c) ==
    /\ loc[c].audio.cleanups > 0
    /\ Audio(c, cleanupTimer(loc[c].audio))
LoopTimer(c) ==
    /\ loc[c].audio.lofiTimerId /\ loc[c].audio.lofiRunning
    /\ loc[c].audio.lofiMaster = 0
    /\ Audio(c, loopTimer(loc[c].audio))

InitAudioSpec ==
    /\ storage = Absent
    /\ loc = [ c \in Ctx |->
                 IF c \in AudioCtx THEN [ NoLevel EXCEPT !.live = TRUE ]
                 ELSE NoLevel ]
    /\ todo = [ c \in Ctx |-> <<>> ]
    /\ snap = [ c \in Ctx |-> NoSnap ]
    /\ inbox = [ c \in Ctx |-> <<>> ]
    /\ hasBroadcastChannel \in BOOLEAN
    /\ hist = NoHistory
    /\ chan = NoChannel

NextAudio ==
    \/ \E c \in AudioCtx : InitAudio(c)
    \/ \E c \in AudioCtx, visible \in BOOLEAN : VisibilityChange(c, visible)
    \/ \E c \in AudioCtx : SilenceAll(c)
    \/ \E c \in AudioCtx : StopLofiMusic(c)
    \/ \E c \in AudioCtx : LevelMusic(c)
    \/ \E c \in AudioCtx : LevelAmbient(c)
    \/ \E c \in AudioCtx : StopAmbient(c)
    \/ \E c \in AudioCtx : CleanupTimer(c)
    \/ \E c \in AudioCtx : LoopTimer(c)

SpecAudio == InitAudioSpec /\ [][NextAudio]_vars

\* Act two in tab 3: the context that completed the game is open, tab 1 is
\* opened in 3D and its fragments are collected; tab 3 may be closed and
\* opened again at any time
CompletedLevel ==
    [ NoLevel EXCEPT !.live = TRUE, !.listening = TRUE,
                     !.backtrackTriggered = TRUE, !.wallDissolved = TRUE,
                     !.gameComplete = TRUE ]
ItemCtx == { 1, 2 }

InitItem ==
    /\ storage = JSONstringify(ActOneDoc)
    /\ loc = [ c \in Ctx |-> IF c = 1 THEN CompletedLevel ELSE NoLevel ]
    /\ todo = [ c \in Ctx |-> <<>> ]
    /\ snap = [ c \in Ctx |-> NoSnap ]
    /\ inbox = [ c \in Ctx |-> <<>> ]
    /\ hasBroadcastChannel \in BOOLEAN
    /\ hist = NoHistory
    /\ chan = NoChannel

NextItem ==
    \E c \in ItemCtx :
        \/ Load(c)
        \/ Close(c) /\ TabOf(c) = 3
        \/ SetState(c)
        \/ ChannelSend(c)
        \/ Miss(c)
        \/ L1Init(c)
        \/ L1Enter3DScene(c)
        \/ \E id \in MIND_FRAGMENTS : L1CollectMind(c, id)
        \/ L1FragCount(c)
        \/ L3Init(c)
        \/ L3OnMessage(c)
        \/ L3Visibility(c)
        \/ L3ActTwoTimer(c)

SpecItem == InitItem /\ [][NextItem]_vars

\* Tab 4 alone after act one: its context is opened, closed and opened
\* again while the memory fragments are collected
EmergenceCtx == { 6 }

NextEmergence ==
    \E c \in EmergenceCtx :
        \/ Load(c)
        \/ Close(c)
        \/ SetState(c)
        \/ ChannelSend(c)
        \/ L4Init(c)
        \/ \E id \in MEMORY_FRAGMENTS : L4Collect(c, id)
        \/ L4Collected(c)
        \/ L4ConclusionTimer(c)

SpecEmergence == InitActTwo /\ [][NextEmergence]_vars

\* Tab 1 in two contexts and tab 2 in one, the read and the write of every
\* setState call as separate steps, on a host without BroadcastChannel
PatternRaceCtx == { 2, 3, 4 }

NextPatternRace ==
    \E c \in PatternRaceCtx :
        \/ Load(c)
        \/ SetStateRead(c)
        \/ SetStateWrite(c)
        \/ ChannelSend(c)
        \/ Miss(c)
        \/ L1Init(c)
        \/ L1PickupLight(c)
        \/ L1CollectBonus(c)
        \/ L1OnMessage(c)
        \/ L2Init(c)
        \/ \E label \in Labels : L2Interact(c, label)
        \/ L2OnMessage(c)
        \/ L2Visibility(c)

SpecPatternRace == Init /\ [][NextPatternRace]_vars

\* The narrator of one context under its callers: single triggers, the
\* chained pair of level3.js, the log sync of the page, the animation end.
\* hist.calls logs every call: the ids it was given, _isAnimating before
\* it, whether it displayed a line and whether it changed _shownLines.
LinesCtx == { 1 }

\* Calls to the narrator in one run
MaxLineCalls == 4

\* The ids the callers pass: lines of tab 3, and the id level3.js passes for
\* the Act 2 item, which the line map does not hold
LineIds == { "tab3_enter", "tab3_unlock", "tab3_act2" }

\* The arrays the page passes to setShownLines
ShownArrays == { << "tab3_enter" >>, << "tab3_block", "tab3_backtrack" >> }

LineCall(kind, ids, l, l2) ==
    [ kind |-> kind, ids |-> ids, animating |-> l.isAnimating,
      displayed |-> kind = "trigger" /\ Displays(l, Head(ids)),
      marked |-> l2.shownLines # l.shownLines ]

\* triggerNarrator(id) from a level
TriggerNarrator(c, id) ==
    /\ c \in LinesCtx /\ loc[c].live
    /\ Len(hist.calls) < MaxLineCalls
    /\ LET l == triggerNarrator(loc[c], id) IN
        /\ loc' = [ loc EXCEPT ![c] = l ]
        /\ hist' = [ hist EXCEPT !.calls =
                       Append(@, LineCall("trigger", << id >>, loc[c], l)) ]
    /\ UNCHANGED <<storage, todo, snap, inbox, hasBroadcastChannel, chan>>

\* level3.js, the wall: triggerNarrator('tab3_block').then(...); the promise
\* is resolved at once when the line is not played
BlockThenBacktrack(c) ==
    /\ c \in LinesCtx /\ loc[c].live
    /\ loc[c].thenChain = "none"
    /\ Len(hist.calls) < MaxLineCalls
    /\ LET l == triggerNarrator(loc[c], "tab3_block") IN
        /\ loc' = [ loc EXCEPT ![c] =
                      [ l EXCEPT !.thenChain =
                          IF Displays(loc[c], "tab3_block")
                          THEN "promise" ELSE "timer" ] ]
        /\ hist' = [ hist EXCEPT !.calls =
                       Append(@, LineCall("trigger", << "tab3_block" >>,
                                          loc[c], l)) ]
    /\ UNCHANGED <<storage, todo, snap, inbox, hasBroadcastChannel, chan>>

\* The 800 ms timer of the chain: triggerNarrator('tab3_backtrack')
BacktrackLineTimer(c) ==
    /\ c \in LinesCtx /\ loc[c].live
    /\ loc[c].thenChain = "timer"
    /\ LET l == triggerNarrator(loc[c], "tab3_backtrack") IN
        /\ loc' = [ loc EXCEPT ![c] = [ l EXCEPT !.thenChain = "done" ] ]
        /\ hist' = [ hist EXCEPT !.calls =
                       Append(@, LineCall("trigger", << "tab3_backtrack" >>,
                                          loc[c], l)) ]
    /\ UNCHANGED <<storage, todo, snap, inbox, hasBroadcastChannel, chan>>

\* setShownLines(arr) from the page
SetShownLines(c, arr) ==
    /\ c \in LinesCtx /\ loc[c].live
    /\ Len(hist.calls) < MaxLineCalls
    /\ LET l == setShownLines(loc[c], arr) IN
        /\ loc' = [ loc EXCEPT ![c] = l ]
        /\ hist' = [ hist EXCEPT !.calls =
                       Append(@, LineCall("sync", arr, loc[c], l)) ]
    /\ UNCHANGED <<storage, todo, snap, inbox, hasBroadcastChannel, chan>>

\* The async tail of the animation of tab3_block, whose promise resolves
\* and starts the timer of the chain
BlockAnimationEnds(c) ==
    /\ c \in LinesCtx /\ loc[c].live /\ loc[c].isAnimating
    /\ loc[c].thenChain = "promise"
    /\ loc' = [ loc EXCEPT ![c].isAnimating = FALSE,
                           ![c].thenChain = "timer" ]
    /\ UNCHANGED <<storage, todo, snap, inbox, hasBroadcastChannel, hist, chan>>

\* The async tail of any other animation
LineAnimationEnds(c) ==
    /\ c \in LinesCtx /\ loc[c].thenChain # "promise"
    /\ AnimationEnds(c)

InitLines ==
    /\ storage = Absent
    /\ loc = [ c \in Ctx |->
                 IF c \in LinesCtx THEN [ NoLevel EXCEPT !.live = TRUE ]
                 ELSE NoLevel ]
    /\ todo = [ c \in Ctx |-> <<>> ]
    /\ snap = [ c \in Ctx |-> NoSnap ]
    /\ inbox = [ c \in Ctx |-> <<>> ]
    /\ hasBroadcastChannel = FALSE
    /\ hist = [ calls |-> <<>> ]
    /\ chan = NoChannel

NextLines ==
    \E c \in LinesCtx :
        \/ \E id \in LineIds : TriggerNarrator(c, id)
        \/ BlockThenBacktrack(c)
        \/ BacktrackLineTimer(c)
        \/ \E arr \in ShownArrays : SetShownLines(c, arr)
        \/ BlockAnimationEnds(c)
        \/ LineAnimationEnds(c)

SpecLines == InitLines /\ [][NextLines]_vars

\* A document that an earlier session left in the cell
EarlierDoc ==
    [ defaultState EXCEPT !.meta.highestTabUnlocked = 3,
                          !.player.codeFragments = << 2 >> ]

\* The store under its callers: at first the cell is empty, unreadable or
\* holds the document of an earlier session
InitStore ==
    /\ storage \in { Absent, Corrupt, JSONstringify(EarlierDoc) }
    /\ loc = [ c \in Ctx |-> IF c \in StoreCtx
                             THEN [ NoLevel EXCEPT !.live = TRUE ]
                             ELSE NoLevel ]
    /\ todo = [ c \in Ctx |-> <<>> ]
    /\ snap = [ c \in Ctx |-> NoSnap ]
    /\ inbox = [ c \in Ctx |-> <<>> ]
    /\ hasBroadcastChannel \in BOOLEAN
    /\ hist = [ base |-> getState(storage), calls |-> <<>> ]
    /\ chan = NoChannel

NextStore ==
    \E c \in StoreCtx :
        \/ \E upd \in StoreUpdaters : Call(c, upd)
        \/ SetStateRead(c)
        \/ SetStateWrite(c)
        \/ Miss(c)

SpecStore == InitStore /\ [][NextStore]_vars

----------------------------------------------------------------------------
(* The floor symbols of tab 1, collected one setState call after the other *)

\* Appends that one run issues
MaxAppends == 6

\* FLOOR_SYMBOLS, all five of them
FLOOR_SYMBOLS == 1 .. 5

\* The tab-1 context that collects
AppendCtx == {2}

\* setOnInteract of setupReturnVisit, its setState call: the player collects
\* floor symbol s (or, in a second tab-1 session, collects it again)
Collect(c, s) ==
    /\ Idle(c)
    /\ Len(hist.calls) < MaxAppends
    /\ todo' = [ todo EXCEPT ![c] =
                   << SetOp([ k |-> "pushCode", symbol |-> s ], TabOf(c)) >> ]
    /\ hist' = [ hist EXCEPT !.calls =
                   Append(@, [ ctx |-> c, upd |-> [ k |-> "pushCode", symbol |-> s ] ]) ]
    /\ UNCHANGED <<storage, loc, snap, inbox, hasBroadcastChannel, chan>>

InitAppend ==
    /\ storage \in { Absent, JSONstringify(EarlierDoc) }
    /\ loc = [ c \in Ctx |-> IF c \in AppendCtx
                             THEN [ NoLevel EXCEPT !.live = TRUE ]
                             ELSE NoLevel ]
    /\ todo = [ c \in Ctx |-> <<>> ]
    /\ snap = [ c \in Ctx |-> NoSnap ]
    /\ inbox = [ c \in Ctx |-> <<>> ]
    /\ hasBroadcastChannel = FALSE
    /\ hist = [ base |-> getState(storage), calls |-> <<>> ]
    /\ chan = NoChannel

NextAppend ==
    \E c \in AppendCtx :
        \/ \E s \in FLOOR_SYMBOLS : Collect(c, s)
        \/ SetState(c)

SpecAppend == InitAppend /\ [][NextAppend]_vars

----------------------------------------------------------------------------

(* Callers of the bus: contexts that register and remove callbacks and     *)
(* send the envelopes of the levels, and the event loop of each context    *)

\* The send calls of level3.js (context 1) and level1.js (context 2)
SendArgs(c) ==
    IF TabOf(c) = 3
    THEN { [ type |-> "BACKTRACK_TRIGGER", payload |-> [ targetTab |-> 1 ],
             fromTab |-> 3 ],
           [ type |-> "TAB_COMPLETED", payload |-> [ completedTab |-> 3 ],
             fromTab |-> 3 ] }
    ELSE { [ type |-> "TAB_COMPLETED", payload |-> [ completedTab |-> 1 ],
             fromTab |-> 1 ] }

SentSoFar == Len(hist.sent[1]) + Len(hist.sent[2])
HasRoom(c) == \A d \in ChanCtx \ {c} : Len(chan.events[d]) < MaxPending

\* channel.send(type, payload, fromTab) is called in context c
Send(c, a, nonce) ==
    /\ SentSoFar < MaxSends
    /\ HasRoom(c)
    /\ chan' = send(chan, c, a.type, a.payload, a.fromTab, nonce,
                    [ from |-> c, seq |-> Len(hist.sent[c]) + 1 ])
    /\ hist' = [ hist EXCEPT !.sent[c] =
                   Append(@, Envelope(a.type, a.fromTab, a.payload)) ]
    /\ UNCHANGED <<storage, loc, todo, snap, inbox, hasBroadcastChannel>>

\* channel.onMessage(cb) and channel.removeListener(cb) are called in c
OnMessage(c, cb) ==
    /\ chan' = onMessage(chan, c, cb)
    /\ UNCHANGED <<storage, loc, todo, snap, inbox, hasBroadcastChannel, hist>>

RemoveListener(c, cb) ==
    /\ chan' = removeListener(chan, c, cb)
    /\ UNCHANGED <<storage, loc, todo, snap, inbox, hasBroadcastChannel, hist>>

\* A setItem of the game document in c: a storage event of another key in
\* the other contexts (of interest where handlers listen for storage events;
\* one such event at a time is pending in a context)
StateStorageEvent(c) ==
    /\ ~hasBroadcastChannel
    /\ HasRoom(c)
    /\ \A d \in ChanCtx \ {c} :
         \A i \in 1 .. Len(chan.events[d]) :
            chan.events[d][i].ev.key = LS_KEY
    /\ chan' = Fire(chan, c,
                    [ on |-> "storage", key |-> STORAGE_KEY,
                      newValue |-> JSONstringify(defaultState) ],
                    [ from |-> c, seq |-> 0 ])
    /\ UNCHANGED <<storage, loc, todo, snap, inbox, hasBroadcastChannel, hist>>

\* seq followed by k times x
RECURSIVE AppendTimes(_, _, _)
AppendTimes(seq, x, k) ==
    IF k = 0 THEN seq ELSE AppendTimes(Append(seq, x), x, k - 1)

\* The event loop of c dispatches its next event: every handler attached
\* for that kind of event runs once
Dispatch(c) ==
    /\ chan.events[c] # <<>>
    /\ LET e == NextEvent(chan.events[c])
           msg == HandlerMessage(e.ev)
           runs(cb) == Cardinality({ h \in HandlersOf(chan, c, cb) :
                                       h.on = e.ev.on }) IN
        /\ chan' = [ chan EXCEPT !.events[c] = RestEvents(@, e) ]
        /\ hist' = [ hist EXCEPT !.invoked[c] =
                       [ cb \in CallbacksOf(c) |->
                           IF msg = NoMessage
                           THEN @[cb]
                           ELSE AppendTimes(@[cb],
                                    [ msg |-> msg, tag |-> e.tag ],
                                    runs(cb)) ] ]
    /\ UNCHANGED <<storage, loc, todo, snap, inbox, hasBroadcastChannel>>

InitChannel ==
    /\ storage = Absent
    /\ loc = [ c \in Ctx |-> IF c \in ChanCtx
                             THEN [ NoLevel EXCEPT !.live = TRUE ]
                             ELSE NoLevel ]
    /\ todo = [ c \in Ctx |-> <<>> ]
    /\ snap = [ c \in Ctx |-> NoSnap ]
    /\ inbox = [ c \in Ctx |-> <<>> ]
    /\ hasBroadcastChannel \in BOOLEAN
    /\ hist = [ sent |-> [ c \in ChanCtx |-> <<>> ],
                invoked |-> [ c \in ChanCtx |->
                              [ cb \in CallbacksOf(c) |-> <<>> ] ] ]
    /\ chan = NoChannel

NextChannel ==
    \E c \in ChanCtx :
        \/ \E a \in SendArgs(c), nonce \in Nonces : Send(c, a, nonce)
        \/ \E cb \in CallbacksOf(c) : OnMessage(c, cb)
        \/ \E cb \in CallbacksOf(c) : RemoveListener(c, cb)
        \/ StateStorageEvent(c)
        \/ Dispatch(c)

SpecChannel == InitChannel /\ [][NextChannel]_vars

----------------------------------------------------------------------------

(* The fallback transport under writes to its key that lsFallbackPost did  *)
(* not make                                                                *)

\* Writes to the fallback key that one run makes from outside channel.js
MaxForeign == 2

\* What such a write leaves in the key: nothing (removeItem), the empty
\* string, a text on which JSON.parse throws, the texts 'null' and '5'
ForeignValues ==
    { Absent, Empty, Corrupt, JSONstringify(JsNull), JSONstringify(JsNumber) }

\* Some script of context c sets or removes localStorage[LS_KEY]: a storage
\* event in the other contexts when the value changes
ForeignWrite(c, value) ==
    /\ Len(hist.foreign) < MaxForeign
    /\ HasRoom(c)
    /\ value # chan.lsKey
    /\ chan' = Fire([ chan EXCEPT !.lsKey = value ], c,
                    [ on |-> "storage", key |-> LS_KEY, newValue |-> value ],
                    [ from |-> c, seq |-> 0 ])
    /\ hist' = [ hist EXCEPT !.foreign = Append(@, [ ctx |-> c, value |-> value ]) ]
    /\ UNCHANGED <<storage, loc, todo, snap, inbox, hasBroadcastChannel>>

InitMalformed ==
    /\ storage = Absent
    /\ loc = [ c \in Ctx |-> IF c \in ChanCtx
                             THEN [ NoLevel EXCEPT !.live = TRUE ]
                             ELSE NoLevel ]
    /\ todo = [ c \in Ctx |-> <<>> ]
    /\ snap = [ c \in Ctx |-> NoSnap ]
    /\ inbox = [ c \in Ctx |-> <<>> ]
    /\ hasBroadcastChannel = FALSE
    /\ hist = [ sent |-> [ c \in ChanCtx |-> <<>> ],
                invoked |-> [ c \in ChanCtx |->
                              [ cb \in CallbacksOf(c) |-> <<>> ] ],
                foreign |-> <<>> ]
    /\ chan = NoChannel

NextMalformed ==
    \E c \in ChanCtx :
        \/ \E cb \in CallbacksOf(c) : OnMessage(c, cb)
        \/ \E value \in ForeignValues : ForeignWrite(c, value)
        \/ StateStorageEvent(c)
        \/ Dispatch(c)

SpecMalformed == InitMalformed /\ [][NextMalformed]_vars

----------------------------------------------------------------------------

(* The store over every kind of persisted value (none, unparsable, parsable *)
(* but no game document, a document) and over an updater result that is no *)
(* game document                                                           *)

SchemaUpdaters ==
    { [ k |-> "merge", id |-> 3, updates |-> [ backtrackedTo1 |-> TRUE ] ],
      [ k |-> "pushCode", symbol |-> 1 ],
      [ k |-> "returnsEmpty" ] }

InitSchema ==
    /\ storage \in { Absent, Corrupt,
                     JSONstringify(JsNumber), JSONstringify(JsNull),
                     JSONstringify(EmptyObject), JSONstringify(EarlierDoc) }
    /\ loc = [ c \in Ctx |-> IF c \in StoreCtx
                             THEN [ NoLevel EXCEPT !.live = TRUE ]
                             ELSE NoLevel ]
    /\ todo = [ c \in Ctx |-> <<>> ]
    /\ snap = [ c \in Ctx |-> NoSnap ]
    /\ inbox = [ c \in Ctx |-> <<>> ]
    /\ hasBroadcastChannel = FALSE
    /\ hist = [ base |-> getState(storage), calls |-> <<>> ]
    /\ chan = NoChannel

NextSchema ==
    \E c \in StoreCtx :
        \/ \E upd \in SchemaUpdaters : Call(c, upd)
        \/ SetStateRead(c)
        \/ SetStateWrite(c)

SpecSchema == InitSchema /\ [][NextSchema]_vars

----------------------------------------------------------------------------

(* The exported functions of state.js, each call one step, on a host whose *)
(* storage may refuse a write                                              *)

\* Calls that one run makes
MaxApiCalls == 2

\* fromTab ?? null: the fromTab of a broadcast that names no tab
NoTab == 0

\* localStorage.setItem(STORAGE_KEY, value): when the storage refuses the
\* write (quota exceeded, storage disabled) the call throws and the cell
\* stays as it was
setItem(cell, value, refused) == IF refused THEN cell ELSE value

\* getState(): it writes only when it finds nothing it can parse, and the
\* setItem call is not guarded
getStateRaises(raw, refused) == ~Parses(raw) /\ refused
getStateCell(raw, refused) ==
    IF Parses(raw) THEN raw ELSE setItem(raw, JSONstringify(defaultState), refused)

\* setState(updater): getState(), updater, setItem, _broadcast; no try/catch
setStateRaises(raw, upd, refused) ==
    \/ getStateRaises(raw, refused)
    \/ UpdaterThrows(upd, getState(raw))
    \/ refused
setStateCell(raw, upd, refused) ==
    IF getStateRaises(raw, refused) \/ UpdaterThrows(upd, getState(raw))
    THEN getStateCell(raw, refused)
    ELSE setItem(getStateCell(raw, refused),
                 JSONstringify(ApplyUpdater(upd, getState(raw))), refused)

\* resetState(): setItem(defaults), _broadcast(null, defaults); no try/catch
resetStateRaises(refused) == refused
resetStateCell(raw, refused) == setItem(raw, JSONstringify(defaultState), refused)

\* The updaters that the callers hand to setState: updateTabState with keys
\* the tab record does not have yet, with keys it has, on another tab, and
\* an updater outside the tab records
ApiUpdaters ==
    { [ k |-> "merge", id |-> 1, updates |-> [ bonusSymbolAvailable |-> TRUE ] ],
      [ k |-> "merge", id |-> 1, updates |-> [ bonusSymbol |-> TRUE ] ],
      [ k |-> "merge", id |-> 1,
        updates |-> [ state |-> "illuminated", floorRevealed |-> TRUE ] ],
      [ k |-> "merge", id |-> 3, updates |-> [ backtrackedTo1 |-> TRUE ] ],
      [ k |-> "flashlight" ] }

NoUpdater == [ k |-> "none" ]

\* One more call in the history of the run
Called(c, api, upd, refused, raised) ==
    /\ Idle(c)
    /\ Len(hist.calls) < MaxApiCalls
    /\ hist' = [ hist EXCEPT !.calls =
                   Append(@, [ ctx |-> c, api |-> api, upd |-> upd,
                               refused |-> refused, raised |-> raised ]) ]

\* state.getState() is called in context c
GetStateCall(c, refused) ==
    /\ Called(c, "getState", NoUpdater, refused, getStateRaises(storage, refused))
    /\ storage' = getStateCell(storage, refused)
    /\ UNCHANGED <<loc, todo, snap, inbox, hasBroadcastChannel, chan>>

\* state.setState(updater, fromTab) or state.updateTabState(tabId, updates)
\* is called in context c
SetStateCall(c, upd, refused) ==
    /\ Called(c, "setState", upd, refused, setStateRaises(storage, upd, refused))
    /\ storage' = setStateCell(storage, upd, refused)
    /\ inbox' = IF setStateRaises(storage, upd, refused)
                THEN inbox
                ELSE Broadcast(inbox, c, IF upd.k = "merge" THEN upd.id ELSE TabOf(c),
                               ApplyUpdater(upd, getState(storage)))
    /\ UNCHANGED <<loc, todo, snap, hasBroadcastChannel, chan>>

\* state.resetState() is called in context c
ResetStateCall(c, refused) ==
    /\ Called(c, "resetState", NoUpdater, refused, resetStateRaises(refused))
    /\ storage' = resetStateCell(storage, refused)
    /\ inbox' = IF resetStateRaises(refused)
                THEN inbox
                ELSE Broadcast(inbox, c, NoTab, defaultState)
    /\ UNCHANGED <<loc, todo, snap, hasBroadcastChannel, chan>>

\* The listener that context c registered with onMessage is invoked for the
\* oldest event queued for c; the listeners of these callers do nothing
Observe(c) ==
    /\ loc[c].listening /\ inbox[c] # <<>>
    /\ inbox' = [ inbox EXCEPT ![c] = Tail(@) ]
    /\ UNCHANGED <<storage, loc, todo, snap, hasBroadcastChannel, hist, chan>>

\* Two contexts that have registered a listener; the cell is empty,
\* unreadable or holds the document of an earlier session
InitApi ==
    /\ storage \in { Absent, Corrupt, JSONstringify(EarlierDoc) }
    /\ loc = [ c \in Ctx |-> IF c \in StoreCtx
                             THEN [ NoLevel EXCEPT !.live = TRUE,
                                                   !.listening = TRUE ]
                             ELSE NoLevel ]
    /\ todo = [ c \in Ctx |-> <<>> ]
    /\ snap = [ c \in Ctx |-> NoSnap ]
    /\ inbox = [ c \in Ctx |-> <<>> ]
    /\ hasBroadcastChannel \in BOOLEAN
    /\ hist = [ base |-> storage, calls |-> <<>> ]
    /\ chan = NoChannel

NextApi ==
    \E c \in StoreCtx :
        \/ \E refused \in BOOLEAN : GetStateCall(c, refused)
        \/ \E upd \in ApiUpdaters, refused \in BOOLEAN : SetStateCall(c, upd, refused)
        \/ \E refused \in BOOLEAN : ResetStateCall(c, refused)
        \/ Observe(c)

SpecApi == InitApi /\ [][NextApi]_vars

----------------------------------------------------------------------------

(* Properties of the store *)

\* The persisted document as a reader sees it
Doc == getState(storage)

\* The updaters of the calls, applied in call order to a document
RECURSIVE FoldUpdaters(_, _)
FoldUpdaters(calls, doc) ==
    IF calls = <<>>
    THEN doc
    ELSE FoldUpdaters(Tail(calls), ApplyUpdater(Head(calls).upd, doc))

\* Every call of the run so far was issued by context c
OnlyCaller(c) ==
    /\ hist.calls # <<>>
    /\ \A i \in 1 .. Len(hist.calls) : hist.calls[i].ctx = c

\* C1: when one context alone has issued setState calls and the last of them
\* has returned, the persisted document is the left fold of the updaters, in
\* call order, over the document the run started from: none of its writes
\* is lost.
C1_LeftFold ==
    \A c \in StoreCtx :
        OnlyCaller(c) /\ Idle(c)
            => storage = JSONstringify(FoldUpdaters(hist.calls, hist.base))

\* C1 witness: one context has made three calls with different updaters on
\* top of an earlier document, and all have returned.
C1_Reached ==
    /\ OnlyCaller(1) /\ Idle(1)
    /\ Len(hist.calls) = 3
    /\ hist.base = EarlierDoc
    /\ hist.calls[1].upd.k = "pushCode"
    /\ hist.calls[2].upd.k = "merge"
    /\ hist.calls[3].upd.k = "gameComplete"

\* The field paths an updater writes
WrittenPaths(upd) ==
    CASE upd.k = "merge" ->
            { [ top |-> "tabs", id |-> upd.id, key |-> k ] : k \in DOMAIN upd.updates }
      [] upd.k = "flashlight" ->
            { [ top |-> "player", id |-> 0, key |-> "hasFlashlight" ] }
      [] upd.k = "pushCode" ->
            { [ top |-> "player", id |-> 0, key |-> "codeFragments" ] }
      [] upd.k = "pushMind" ->
            { [ top |-> "player", id |-> 0, key |-> "mindFragments" ] }
      [] upd.k = "pushMemory" ->
            { [ top |-> "tabs", id |-> 4, key |-> "fragmentsCollected" ] }
      [] upd.k = "unlock" ->
            { [ top |-> "meta", id |-> 0, key |-> "highestTabUnlocked" ] }
      [] upd.k = "gameComplete" ->
            { [ top |-> "meta", id |-> 0, key |-> "gameComplete" ] }
      [] upd.k = "actTwoComplete" ->
            { [ top |-> "meta", id |-> 0, key |-> "actTwoComplete" ] }

\* The document holds the mutation of the updater: applying it again
\* changes nothing
Holds(doc, upd) == ApplyUpdater(upd, doc) = doc

\* C8: when two contexts have each made one setState call, on disjoint field
\* paths, and both calls have returned, the persisted document holds both
\* mutations, however the reads and writes of the two calls interleaved.
C8_DisjointWritesBothKept ==
    \A c1, c2 \in StoreCtx :
        ( /\ c1 # c2
          /\ Len(hist.calls) = 2
          /\ hist.calls[1].ctx = c1 /\ hist.calls[2].ctx = c2
          /\ WrittenPaths(hist.calls[1].upd) \cap WrittenPaths(hist.calls[2].upd) = {}
          /\ Idle(c1) /\ Idle(c2) )
        => Holds(Doc, hist.calls[1].upd) /\ Holds(Doc, hist.calls[2].upd)

\* C8 witness: two calls of different contexts on disjoint fields have both
\* returned and the document holds both mutations.
C8_BothKept ==
    /\ Len(hist.calls) = 2
    /\ hist.calls[1].ctx = 1 /\ hist.calls[2].ctx = 2
    /\ hist.calls[1].upd.k = "merge" /\ hist.calls[2].upd.k = "unlock"
    /\ hist.base = defaultState
    /\ Idle(1) /\ Idle(2)
    /\ Holds(Doc, hist.calls[1].upd) /\ Holds(Doc, hist.calls[2].upd)

\* array has no element twice; the ids in array
NoDuplicate(array) ==
    \A i, j \in 1 .. Len(array) : i # j => array[i] # array[j]
Ids(array) == { array[i] : i \in 1 .. Len(array) }

\* The append-only collections of a document
Collections(doc) ==
    << doc.player.codeFragments, doc.player.mindFragments,
       doc.tabs[4].fragmentsCollected >>

\* C10: no step of any context puts an id twice into player.codeFragments,
\* player.mindFragments or tabs.4.fragmentsCollected, and no step removes an
\* id that was persisted.
C10_AppendOnly ==
    [][ \A i \in 1 .. 3 :
          /\ NoDuplicate(Collections(Doc')[i])
          /\ Ids(Collections(Doc)[i]) \subseteq Ids(Collections(Doc')[i]) ]_vars

\* C10 witness: two contexts have appended different ids to the same
\* collection, one call after the other, and both ids are persisted.
C10_BothAppended ==
    /\ Len(hist.calls) >= 2
    /\ hist.calls[1].ctx # hist.calls[2].ctx
    /\ hist.calls[1].upd.k = "pushCode" /\ hist.calls[2].upd.k = "pushCode"
    /\ hist.base = defaultState
    /\ Ids(Doc.player.codeFragments) = { 1, 2 }

----------------------------------------------------------------------------
\* The symbols of the append calls issued so far
Appended == { hist.calls[i].upd.symbol : i \in 1 .. Len(hist.calls) }

\* C11: after any number of sequential appends to player.codeFragments, in
\* any order, the collection holds exactly the ids appended (and those it
\* started with), each once; an append of an id that is already present
\* leaves the collection as it was, an append of a new id puts it last.
C11_SequentialAppends ==
    /\ [](\A c \in AppendCtx :
            Idle(c) =>
              /\ NoDuplicate(Doc.player.codeFragments)
              /\ Ids(Doc.player.codeFragments)
                   = Ids(hist.base.player.codeFragments) \cup Appended)
    /\ [][ \A c \in AppendCtx :
             At(c, "set") /\ todo'[c] = Tail(todo[c]) =>
               IF Head(todo[c]).upd.symbol \in Ids(Doc.player.codeFragments)
               THEN Doc'.player.codeFragments = Doc.player.codeFragments
               ELSE Doc'.player.codeFragments
                      = Doc.player.codeFragments
                          \o << Head(todo[c]).upd.symbol >> ]_vars

\* C11 witness: five different ids were appended to the empty collection,
\* not in index order, then one of them again; the collection holds the five.
C11_FiveThenRepeat ==
    /\ Idle(2)
    /\ hist.base = defaultState
    /\ Len(hist.calls) = 6
    /\ hist.calls[1].upd.symbol = 3
    /\ { hist.calls[i].upd.symbol : i \in 1 .. 5 } = FLOOR_SYMBOLS
    /\ Len(Doc.player.codeFragments) = 5
    /\ Ids(Doc.player.codeFragments) = FLOOR_SYMBOLS

----------------------------------------------------------------------------

\* Context c makes the getState() call of a setState in this step
Gets(c) == At(c, "set") /\ todo'[c] # todo[c]

\* C19: a getState() call that finds the cell absent or unparsable returns
\* the default document and leaves exactly the default document in the cell.
C19_DefaultsOnCorruption ==
    [][ \A c \in StoreCtx :
          Gets(c) /\ ~Parses(storage) =>
            /\ snap'[c] = defaultState
            /\ storage' = JSONstringify(defaultState) ]_vars

\* C19 witness: the run started from an absent or unparsable cell; the first
\* getState() call has returned the defaults and the cell holds them.
C19_DefaultsWritten ==
    /\ hist.base = defaultState
    /\ Len(hist.calls) = 1
    /\ At(1, "write") /\ Idle(2)
    /\ snap[1] = defaultState
    /\ storage = JSONstringify(defaultState)

\* C20: every getState() call returns a value with the structure of the
\* default document and leaves such a value in the cell, whatever parsable
\* text it found there, and every setState call leaves such a value in the
\* cell, whatever the updater returned.
C20_AlwaysSchema ==
    [][ \A c \in StoreCtx :
          /\ Gets(c) =>
               /\ IsDocument(snap'[c])
               /\ Parses(storage') /\ IsDocument(JSONparse(storage'))
          /\ At(c, "write") /\ todo'[c] # todo[c] =>
               Parses(storage') /\ IsDocument(JSONparse(storage')) ]_vars

\* C20 witness: a getState() call has returned the document that an earlier
\* session persisted, and the cell still holds it.
C20_DocumentReturned ==
    /\ hist.base = EarlierDoc
    /\ At(1, "write")
    /\ snap[1] = EarlierDoc
    /\ storage = JSONstringify(EarlierDoc)

----------------------------------------------------------------------------

(* Properties of the trigger protocol *)

\* Context c, a tab-1 context with no handler running, takes the oldest
\* event off its queue in this step, and the event is BACKTRACK_TRIGGER for
\* tab 1 (midpuzzle: with reason 'midpuzzle')
TakesBacktrack(c, midpuzzle) ==
    /\ Idle(c) /\ TabOf(c) = 1 /\ loc[c].listening
    /\ inbox[c] # <<>>
    /\ IsBacktrackTo(Head(inbox[c]), 1)
    /\ PayloadIs(Head(inbox[c]), "reason", "midpuzzle") = midpuzzle
    /\ inbox'[c] = Tail(inbox[c])

\* The step leaves c with a store write to make
StartsWrite(c) ==
    /\ todo[c] = <<>> /\ todo'[c] # <<>>
    /\ Head(todo'[c]).op = "set"

\* init of the level of c runs in this step
LevelStarts(c) ==
    /\ At(c, "init")
    /\ todo'[c] = <<>> \/ Head(todo'[c]).op # "init"

\* ... and takes the return-visit branch (or starts in 3D, the later phase)
StartsIlluminated(c) ==
    \/ todo'[c] # <<>> /\ Head(todo'[c]).op = "setupReturnVisit"
    \/ loc'[c].is3DMode

\* tabs.3.backtrackedTo1 is persisted and no context still has the
\* BACKTRACK_TRIGGER envelope to send
BacktrackSent ==
    /\ Doc.tabs[3].backtrackedTo1
    /\ \A a \in Ctx : \A i \in 1 .. Len(todo[a]) :
           ~(todo[a][i].op = "send" /\ todo[a][i].type = "BACKTRACK_TRIGGER")

\* b is a live tab-1 context that the envelope of tab 3 has reached: the event
\* is queued for it or its handler has run
BacktrackReached(b) ==
    /\ TabOf(b) = 1 /\ loc[b].listening
    /\ \/ \E i \in 1 .. Len(inbox[b]) :
              /\ IsBacktrackTo(inbox[b][i], 1)
              /\ ~PayloadIs(inbox[b][i], "reason", "midpuzzle")
       \/ loc[b].onInteract = "floor_symbol"

\* The write of the handler of BACKTRACK_TRIGGER{targetTab: 1}
Illuminate == [ k |-> "merge", id |-> 1,
                updates |-> [ state |-> "illuminated", floorRevealed |-> TRUE ] ]

\* C2: end to end, after tab 3 has persisted backtrackedTo1 and sent
\* BACKTRACK_TRIGGER{targetTab: 1}: the write of the live tab-1 context that
\* handles the envelope moves tabs.1.state from 'visited' to 'illuminated',
\* and a tab-1 context loaded after the send, while a live tab-1 context has
\* been reached by the envelope, starts in the illuminated phase from what
\* it reads on load.
C2_EndToEndBacktrack ==
    [][ \A c \in Ctx :
          /\ ( /\ TabOf(c) = 1 /\ At(c, "set")
               /\ Head(todo[c]).upd = Illuminate
               /\ todo'[c] = Tail(todo[c])
               /\ Doc.tabs[1].state = "visited" )
             => Doc'.tabs[1].state = "illuminated"
          /\ ( /\ TabOf(c) = 1 /\ LevelStarts(c)
               /\ BacktrackSent
               /\ \E b \in Ctx \ {c} : BacktrackReached(b) )
             => StartsIlluminated(c) ]_vars

\* C2 witness: the sequential case. One tab-1 context has handled the
\* envelope and persisted 'illuminated'; another, loaded later, is in the
\* illuminated phase without any event ever queued for it having been a
\* backtrack (it is the context opened last, its visit is the second).
C2_LoadedAfterHandled ==
    /\ BacktrackSent
    /\ Doc.tabs[1].state = "illuminated"
    /\ Doc.tabs[1].visitCount = 2
    /\ Idle(2) /\ loc[2].onInteract = "floor_symbol"
    /\ Idle(3) /\ loc[3].onInteract = "floor_symbol"
    /\ ~loc[3].firstVisitKeydownHandler /\ ~loc[3].exitUnlocked
    /\ loc[3].interactables = "symbols"

\* C3: once tabs.3.backtrackedTo1 is persisted and the envelope has gone out,
\* a tab-1 context that is loaded starts in the illuminated phase by what it
\* reads from the store, whether or not any tab-1 context received the
\* envelope.
C3_RecoveryOnLoad ==
    [][ \A c \in Ctx :
          ( TabOf(c) = 1 /\ LevelStarts(c) /\ BacktrackSent )
            => StartsIlluminated(c) ]_vars

\* C3 witness: tabs.3.backtrackedTo1 is persisted, no tab-1 context was live
\* when the envelope was sent, and a tab-1 context loaded since is idle in
\* its first-visit phase.
C3_LoadedAfterMissedEnvelope ==
    /\ BacktrackSent
    /\ Idle(2) /\ loc[2].listening
    /\ loc[2].onInteract = "exit"
    /\ ~loc[3].live
    /\ inbox[2] = <<>>

\* C4: a BACKTRACK_TRIGGER for tab 1 that arrives when the flag of its
\* transition is already persisted (tabs.1.state = 'illuminated', or for
\* reason 'midpuzzle' tabs.1.bonusSymbolAvailable = true) changes nothing:
\* no store write is started, no envelope is queued for sending, no closure
\* variable changes and the cell stays as it is.
C4_IdempotentHandling ==
    [][ \A c \in Ctx :
          ( \/ TakesBacktrack(c, FALSE) /\ Doc.tabs[1].state = "illuminated"
            \/ TakesBacktrack(c, TRUE) /\ IsTrue(Doc.tabs[1], "bonusSymbolAvailable") )
            => /\ todo'[c] = <<>>
               /\ loc'[c] = loc[c]
               /\ storage' = storage ]_vars

\* C4 witness: the envelope arrives a second time. The tab-1 context has
\* placed the bonus symbol, tabs.1.bonusSymbolAvailable is persisted, and
\* another BACKTRACK_TRIGGER with reason 'midpuzzle' is queued for it.
C4_SecondDelivery ==
    /\ Idle(2) /\ loc[2].listening /\ loc[2].bonusSymbolPlaced
    /\ IsTrue(Doc.tabs[1], "bonusSymbolAvailable")
    /\ inbox[2] # <<>>
    /\ IsBacktrackTo(Head(inbox[2]), 1)
    /\ PayloadIs(Head(inbox[2]), "reason", "midpuzzle")

\* The persisted document backs the envelope: it holds the mutation of the
\* milestone that the envelope announces
Backs(doc, msg) ==
    /\ msg.type = "TAB_COMPLETED" /\ PayloadIs(msg, "completedTab", 3)
          => doc.meta.gameComplete
    /\ \A n \in 1 .. 3 :
          msg.type = "TAB_COMPLETED" /\ PayloadIs(msg, "completedTab", n)
          => doc.meta.highestTabUnlocked >= n + 1
    /\ IsBacktrackTo(msg, 1) /\ ~PayloadIs(msg, "reason", "midpuzzle")
          => doc.tabs[3].backtrackedTo1
    /\ msg.type = "NEW_SYMBOL_FOUND" => IsTrue(doc.tabs[1], "bonusSymbol")
    /\ msg.type = "PUZZLE_SOLVED" => doc.tabs[2].puzzleSolved

\* C5: an envelope is published only after the mutation of its milestone is
\* persisted, so every envelope that is queued for a context is backed by
\* the persisted document (TAB_COMPLETED{3} by meta.gameComplete,
\* TAB_COMPLETED{n} by meta.highestTabUnlocked >= n + 1).
C5_PersistBeforeSend ==
    \A c \in Ctx : \A i \in 1 .. Len(inbox[c]) : Backs(Doc, inbox[c][i])

\* C5 witness: the milestone whose order is right. BACKTRACK_TRIGGER for
\* tab 1 is queued for a tab-1 context and tabs.3.backtrackedTo1 is
\* persisted.
C5_BacktrackQueuedAndBacked ==
    /\ inbox[2] # <<>>
    /\ IsBacktrackTo(Head(inbox[2]), 1)
    /\ Doc.tabs[3].backtrackedTo1

\* C6: tab 1 starts the write of 'illuminated' on BACKTRACK_TRIGGER only if
\* tabs.3.backtrackedTo1 is persisted, and tab 2 unlocks its symbols on
\* NEW_SYMBOL_FOUND only if tabs.1.bonusSymbol is persisted.
C6_OnlyStoreBackedTransitions ==
    [][ \A c \in Ctx :
          /\ ( TakesBacktrack(c, FALSE) /\ StartsWrite(c) )
                => Doc.tabs[3].backtrackedTo1
          /\ ( /\ Idle(c) /\ TabOf(c) = 2 /\ loc[c].listening
               /\ inbox[c] # <<>> /\ Head(inbox[c]).type = "NEW_SYMBOL_FOUND"
               /\ inbox'[c] = Tail(inbox[c])
               /\ loc[c].symbolsLocked /\ ~loc'[c].symbolsLocked )
                => IsTrue(Doc.tabs[1], "bonusSymbol") ]_vars

\* C6 witness: the backed case. A tab-1 context is about to write
\* 'illuminated' and tabs.3.backtrackedTo1 is persisted.
C6_BackedTransition ==
    /\ At(2, "set") /\ Head(todo[2]).upd = Illuminate
    /\ Doc.tabs[3].backtrackedTo1

\* The order of the phases of a tab record
Rank(state) ==
    CASE state = "unvisited" -> 0
      [] state = "visited" -> 1
      [] state = "illuminated" -> 2
      [] state = "3d" -> 3

\* C7: no step moves the state field of a tab record to an earlier phase of
\* unvisited, visited, illuminated, 3d.
C7_StateOnlyForward ==
    [][ \A n \in Tabs :
          Rank(Doc'.tabs[n].state) >= Rank(Doc.tabs[n].state) ]_vars

\* C7 witness: tabs.1.state has gone through to '3d'.
C7_Reached3d == Doc.tabs[1].state = "3d"

\* C9: no step lowers meta.highestTabUnlocked or takes meta.gameComplete or
\* meta.actTwoComplete from true back to false.
C9_MetaMonotone ==
    [][ /\ Doc'.meta.highestTabUnlocked >= Doc.meta.highestTabUnlocked
        /\ Doc.meta.gameComplete => Doc'.meta.gameComplete
        /\ Doc.meta.actTwoComplete => Doc'.meta.actTwoComplete ]_vars

\* C9 witness: both milestones of the loop are persisted.
C9_BothMilestones ==
    /\ Doc.meta.highestTabUnlocked = 2
    /\ Doc.meta.gameComplete

----------------------------------------------------------------------------
(* Properties of the STATE_CHANGE broadcast *)

\* Context c finishes a setState call in this step: the write and the
\* broadcast that follows it
Writes(c) == At(c, "write") /\ todo'[c] = Tail(todo[c])

\* C12: every setState call publishes one STATE_CHANGE envelope that carries
\* the document it has just persisted, and the envelope is queued for every
\* other live context, with BroadcastChannel and without it.
C12_StateChangePublished ==
    [][ \A c \in RaceCtx :
          Writes(c) =>
            \A d \in RaceCtx \ {c} :
              loc[d].live /\ Len(inbox[d]) < MaxInbox =>
                inbox'[d] = Append(inbox[d],
                    Envelope("STATE_CHANGE", Head(todo[c]).fromTab, Doc')) ]_vars

\* C12 witness: on a host with BroadcastChannel another context has the
\* STATE_CHANGE of the document that is persisted now in its queue.
C12_StateChangeQueued ==
    /\ hasBroadcastChannel
    /\ \E d \in RaceCtx :
        /\ loc[d].live /\ inbox[d] # <<>>
        /\ Head(inbox[d]) = Envelope("STATE_CHANGE", 3, Doc)
        /\ TabOf(d) = 1

\* Context c finishes a channel.send call in this step
Sends(c) == At(c, "send") /\ todo'[c] = Tail(todo[c])

\* C13: no envelope that a context produces, with channel.send or with the
\* STATE_CHANGE broadcast of its own setState, is queued for the handlers
\* that the same context registered with onMessage.
C13_SelfExclusion ==
    [][ \A c \in RaceCtx :
          (Writes(c) \/ Sends(c)) /\ loc[c].listening
            => inbox'[c] = inbox[c] ]_vars

\* C13 witness: tab 3 has sent BACKTRACK_TRIGGER with channel.send; the
\* event is queued for tab 1 and not for the listening tab 3 itself.
C13_SentToOtherOnly ==
    /\ loc[1].listening /\ inbox[1] = <<>>
    /\ loc[2].live /\ inbox[2] # <<>>
    /\ Head(inbox[2]).type = "BACKTRACK_TRIGGER"
    /\ Head(inbox[2]).fromTab = 3

----------------------------------------------------------------------------
(* Properties of the bus *)

\* The invocations of callback cb in context d so far, oldest first
Invoked(d, cb) == hist.invoked[d][cb]

SendCall(c) == hist'.sent[c] # hist.sent[c]

\* C15: over the fallback every send call changes the value of the
\* well-known key, also when it repeats the content of the call before it,
\* so that every send call is a storage event of its own in each other
\* context.
C15_NonCoalescing ==
    [][ \A c \in ChanCtx :
          ~hasBroadcastChannel /\ SendCall(c) =>
            /\ chan'.lsKey # chan.lsKey
            /\ \A d \in ChanCtx \ {c} :
                 Len(chan'.events[d]) = Len(chan.events[d]) + 1 ]_vars

\* C15 witness: over the fallback tab 3 has sent the same envelope twice in
\* a row and the callback of the other context was invoked once for each.
C15_TwoDeliveries ==
    /\ ~hasBroadcastChannel
    /\ Len(hist.sent[1]) = 2 /\ hist.sent[1][1] = hist.sent[1][2]
    /\ hist.sent[2] = <<>>
    /\ Len(Invoked(2, "onMessageA")) = 2
    /\ Invoked(2, "onMessageA")[1].tag.seq = 1
    /\ Invoked(2, "onMessageA")[2].tag.seq = 2

Tags(invocations) == { invocations[i].tag : i \in 1 .. Len(invocations) }

\* C17: a callback never has more than one handler attached, whatever
\* onMessage and removeListener calls were made; onMessage of a callback that
\* is registered changes nothing; no event invokes a callback twice.
C17_RegisterOnce ==
    \A c \in ChanCtx : \A cb \in CallbacksOf(c) :
        /\ Cardinality(HandlersOf(chan, c, cb)) <= 1
        /\ chan.listenerMap[c][cb] # NoHandler => onMessage(chan, c, cb) = chan
        /\ Cardinality(Tags(Invoked(c, cb))) = Len(Invoked(c, cb))

\* C17 witness: both callbacks of the tab-1 context are registered, each
\* with one handler, and one delivered envelope has invoked each of them once.
C17_BothInvokedOnce ==
    /\ Cardinality(chan.listeners[2]) = 2
    /\ chan.listenerMap[2]["onMessageA"] # NoHandler
    /\ chan.listenerMap[2]["onMessageB"] # NoHandler
    /\ Len(Invoked(2, "onMessageA")) = 1
    /\ Len(Invoked(2, "onMessageB")) = 1
    /\ Invoked(2, "onMessageA") = Invoked(2, "onMessageB")

\* C18: a callback is invoked only while it is registered; removeListener
\* detaches the handler of the callback it is given and of no other, and it
\* changes nothing when that callback is not registered.
C18_RemoveListener ==
    /\ [](\A c \in ChanCtx : \A cb \in CallbacksOf(c) :
            LET after == removeListener(chan, c, cb) IN
            /\ HandlersOf(after, c, cb) = {}
            /\ after.listenerMap[c][cb] = NoHandler
            /\ chan.listenerMap[c][cb] = NoHandler => after = chan
            /\ \A other \in CallbacksOf(c) \ {cb} :
                 /\ HandlersOf(after, c, other) = HandlersOf(chan, c, other)
                 /\ after.listenerMap[c][other] = chan.listenerMap[c][other])
    /\ [][ \A c \in ChanCtx : \A cb \in CallbacksOf(c) :
             hist'.invoked[c][cb] # hist.invoked[c][cb]
               => chan.listenerMap[c][cb] # NoHandler ]_vars

\* C18 witness: callback A of the tab-1 context was invoked for a first
\* envelope and then removed; a second envelope has invoked callback B, which
\* stayed registered, and not A.
C18_RemovedOneKeptOther ==
    /\ chan.listenerMap[2]["onMessageA"] = NoHandler
    /\ chan.listenerMap[2]["onMessageB"] # NoHandler
    /\ Len(Invoked(2, "onMessageB")) = 2
    /\ Invoked(2, "onMessageA") = << Invoked(2, "onMessageB")[1] >>
    /\ chan.events[2] = <<>>


----------------------------------------------------------------------------
(* Properties of the exported functions of state.js *)

\* The call made last, and the step in which a call is made
LastCall == hist.calls[Len(hist.calls)]
Calls == hist.calls' # hist.calls

\* The call made in this step reaches a setItem that the storage refuses
WriteRefused ==
    /\ Calls
    /\ LastCall'.refused
    /\ LastCall'.api = "getState" => ~Parses(storage)

\* C21: a call of getState, setState, updateTabState or resetState whose
\* write the storage refuses returns without raising, and the cell holds
\* what it held before the call.
C21_WriteFailureAbsorbed ==
    [][ WriteRefused => ~LastCall'.raised /\ storage' = storage ]_vars

\* C21 witness: the storage refused the write of an updateTabState call on
\* top of an earlier document; the cell still holds that document.
C21_RefusedWriteDropped ==
    /\ Len(hist.calls) = 1
    /\ LastCall.api = "setState" /\ LastCall.upd.k = "merge"
    /\ LastCall.refused
    /\ hist.base = JSONstringify(EarlierDoc)
    /\ storage = hist.base


\* Context c calls resetState() in this step
Resets(c) == Calls /\ LastCall'.api = "resetState" /\ LastCall'.ctx = c

\* C22: a resetState() call, whatever the cell held, leaves exactly the
\* default document in the cell, so that a getState() call after it returns
\* the default document, and queues one STATE_CHANGE envelope with fromTab
\* null for every context that has registered a listener.
C22_ResetToDefaults ==
    [][ \A c \in StoreCtx :
          Resets(c) =>
            /\ storage' = JSONstringify(defaultState)
            /\ getState(storage') = defaultState
            /\ \A d \in StoreCtx :
                 loc[d].listening /\ Len(inbox[d]) < MaxInbox =>
                   inbox'[d] = Append(inbox[d],
                       Envelope("STATE_CHANGE", NoTab, defaultState)) ]_vars

\* C22 witness: on a host with BroadcastChannel a context has reset the
\* document that an updateTabState call had changed; the cell holds the
\* defaults and both listening contexts have the STATE_CHANGE of the reset
\* in their queues.
C22_ResetBroadcast ==
    /\ hasBroadcastChannel
    /\ Len(hist.calls) = 2
    /\ hist.calls[1].api = "setState" /\ ~hist.calls[1].raised
    /\ LastCall.api = "resetState" /\ ~LastCall.raised
    /\ hist.base = JSONstringify(EarlierDoc)
    /\ storage = JSONstringify(defaultState)
    /\ \A d \in StoreCtx :
         inbox[d] = << Envelope("STATE_CHANGE", NoTab, defaultState) >>


\* The call made in this step is updateTabState(id, updates), and it returns
Merges(id, updates) ==
    /\ Calls
    /\ LastCall'.api = "setState" /\ ~LastCall'.raised
    /\ LastCall'.upd = [ k |-> "merge", id |-> id, updates |-> updates ]

\* The record holds every key of updates with the value given there
HoldsKeys(rec, updates) ==
    \A k \in DOMAIN updates : k \in DOMAIN rec /\ rec[k] = updates[k]

\* This step changes tabs[id] by the keys of updates and nothing else
MergedOnly(id, updates) ==
    /\ HoldsKeys(Doc'.tabs[id], updates)
    /\ \A k \in DOMAIN Doc.tabs[id] \ DOMAIN updates :
         k \in DOMAIN Doc'.tabs[id] /\ Doc'.tabs[id][k] = Doc.tabs[id][k]
    /\ DOMAIN Doc'.tabs[id] = DOMAIN Doc.tabs[id] \cup DOMAIN updates
    /\ \A t \in Tabs \ {id} : Doc'.tabs[t] = Doc.tabs[t]
    /\ Doc'.player = Doc.player
    /\ Doc'.narrative = Doc.narrative
    /\ Doc'.meta = Doc.meta

\* C23: an updateTabState(id, updates) call that returns has set the keys of
\* updates in tabs[id], kept every other key of that record and left the
\* other tab records, player, narrative and meta as they were; and after
\* two such calls on the same tab, one after the other, the record holds
\* the keys of both.
C23_ShallowMerge ==
    /\ [][ \A upd \in ApiUpdaters :
             upd.k = "merge" /\ Merges(upd.id, upd.updates)
               => MergedOnly(upd.id, upd.updates) ]_vars
    /\ [] ( ( /\ Len(hist.calls) = 2
              /\ \A i \in 1 .. 2 :
                   /\ hist.calls[i].api = "setState" /\ ~hist.calls[i].raised
                   /\ hist.calls[i].upd.k = "merge"
              /\ hist.calls[1].upd.id = hist.calls[2].upd.id
              /\ DOMAIN hist.calls[1].upd.updates
                   \cap DOMAIN hist.calls[2].upd.updates = {} )
            => /\ HoldsKeys(Doc.tabs[hist.calls[1].upd.id], hist.calls[1].upd.updates)
               /\ HoldsKeys(Doc.tabs[hist.calls[1].upd.id], hist.calls[2].upd.updates) )

\* C23 witness: updateTabState(1, {bonusSymbolAvailable: true}) and then
\* updateTabState(1, {bonusSymbol: true}) have returned; the record of tab 1
\* holds both keys next to the keys it had.
C23_BothKeysHeld ==
    /\ Len(hist.calls) = 2
    /\ hist.calls[1].upd = [ k |-> "merge", id |-> 1,
                             updates |-> [ bonusSymbolAvailable |-> TRUE ] ]
    /\ hist.calls[2].upd = [ k |-> "merge", id |-> 1,
                             updates |-> [ bonusSymbol |-> TRUE ] ]
    /\ ~hist.calls[1].raised /\ ~hist.calls[2].raised
    /\ IsTrue(Doc.tabs[1], "bonusSymbolAvailable")
    /\ IsTrue(Doc.tabs[1], "bonusSymbol")
    /\ Doc.tabs[1].state = "unvisited"


----------------------------------------------------------------------------
(* Properties of the levels' handlers *)

\* Context c makes the store write of placeBonusSymbol() in this step
PlacesBonus(c) ==
    /\ At(c, "set") /\ TabOf(c) = 1
    /\ Head(todo[c]).upd.k = "merge"
    /\ "bonusSymbolAvailable" \in DOMAIN Head(todo[c]).upd.updates
    /\ todo'[c] = Tail(todo[c])

\* The bonus symbols in the list that was handed to setInteractables
BonusSymbols(l) == IF l.interactables = "bonus" THEN 1 ELSE 0

\* C24: when BACKTRACK_TRIGGER with reason 'midpuzzle' reaches a tab-1
\* context that has already placed the bonus symbol, the interactables hold
\* exactly one bonus symbol after the handler, and the store write that the
\* handler makes leaves the persisted document as it was.
C24_OnePlacement ==
    [][ \A c \in PatternCtx :
          /\ ( /\ TakesBacktrack(c, TRUE)
               /\ loc[c].bonusSymbolPlaced /\ ~loc[c].bonusSymbolCollected )
               => /\ BonusSymbols(loc'[c]) = 1
                  /\ loc'[c].bonusSymbolPlaced
          /\ ( /\ PlacesBonus(c)
               /\ IsTrue(Doc.tabs[1], "bonusSymbolAvailable") )
               => /\ storage' = storage
                  /\ IsTrue(Doc'.tabs[1], "bonusSymbolAvailable") ]_vars

\* C24 witness: the second delivery has been handled. The tab-1 context
\* that had placed the bonus symbol, with the flag persisted, is about to
\* make the store write of placeBonusSymbol() again, one bonus symbol among
\* its interactables.
C24_SecondPlacement ==
    /\ At(2, "set") /\ loc[2].listening
    /\ Head(todo[2]).upd.k = "merge"
    /\ "bonusSymbolAvailable" \in DOMAIN Head(todo[2]).upd.updates
    /\ loc[2].bonusSymbolPlaced /\ ~loc[2].bonusSymbolCollected
    /\ BonusSymbols(loc[2]) = 1
    /\ IsTrue(Doc.tabs[1], "bonusSymbolAvailable")


\* State ownership rules of the design: the field paths that a tab owns,
\* and the ones any tab can write
Owns(tab, path) ==
    \/ path.top = "tabs" /\ path.id = tab
    \/ /\ tab = 1 /\ path.top = "player"
       /\ path.key \in { "hasFlashlight", "mindFragments" }
    \/ /\ tab = 3
       /\ \/ path.top = "player" /\ path.key = "codeFragments"
          \/ path.top = "meta" /\ path.key = "gameComplete"
    \/ tab = 4 /\ path.top = "meta" /\ path.key = "actTwoComplete"
AnyTabCanWrite(path) ==
    \/ path.top = "narrative" /\ path.key = "shown"
    \/ path.top = "meta" /\ path.key = "currentTab"

\* Context c makes a setState call in this step
SetsState(c) == At(c, "set") /\ todo'[c] = Tail(todo[c])

\* C25: every setState call of a level writes only field paths that the
\* ownership rules give to the tab of the level, or that any tab can write.
C25_OwnedPathsOnly ==
    [][ \A c \in LoopCtx :
          SetsState(c) =>
            \A path \in WrittenPaths(Head(todo[c]).upd) :
              Owns(TabOf(c), path) \/ AnyTabCanWrite(path) ]_vars

\* C25 witness: tab 3 has written a field of its own record,
\* tabs.3.backtrackedTo1, and no other level has written anything yet.
C25_OwnRecordWritten ==
    /\ loc[1].live /\ Idle(1)
    /\ Doc.tabs[3].backtrackedTo1
    /\ Doc.tabs[1].state = "visited"
    /\ Doc.player = defaultState.player
    /\ Doc.meta = defaultState.meta


\* Context c, a level with no handler running, takes an envelope of an
\* unknown type off its queue in this step
TakesUnknown(c) ==
    /\ Idle(c) /\ loc[c].listening
    /\ inbox[c] # <<>>
    /\ Head(inbox[c]).type \notin VALID_TYPES
    /\ inbox'[c] = Tail(inbox[c])

\* Context c finishes a channel.send call with an unknown type in this step
SendsUnknown(c) ==
    /\ At(c, "send")
    /\ Head(todo[c]).type \notin VALID_TYPES
    /\ todo'[c] = Tail(todo[c])

\* C26: a channel.send call with a type outside VALID_TYPES returns and
\* queues the envelope for every other live context as a known type would
\* be, and the onMessage callback of a level that takes an envelope of an
\* unknown type ends without a store write and without a send.
C26_UnknownTypeHarmless ==
    [][ \A c \in ForwardCtx :
          /\ SendsUnknown(c) =>
               \A d \in ForwardCtx \ {c} :
                 loc[d].live /\ Len(inbox[d]) < MaxInbox =>
                   inbox'[d] = Append(inbox[d],
                       Envelope(Head(todo[c]).type, Head(todo[c]).fromTab,
                                Head(todo[c]).payload))
          /\ TakesUnknown(c) =>
               /\ todo'[c] = <<>>
               /\ storage' = storage ]_vars

\* C26 witness: tab 3 has sent an envelope of an unknown type; it is queued
\* for the listening contexts of tab 1 and tab 2.
C26_UnknownQueued ==
    /\ Idle(1) /\ TabOf(1) = 3
    /\ \A d \in { 2, 4 } :
         /\ Idle(d) /\ loc[d].listening
         /\ inbox[d] = << Envelope(UnknownType, 3,
                                   [ targetTab |-> 1, completedTab |-> 3 ]) >>


----------------------------------------------------------------------------
(* Properties of the fallback handler *)

\* A storage event that carries no envelope: another key, no new value or
\* the empty string, a text that JSON.parse rejects or that parses to null
CarriesNoEnvelope(ev) ==
    /\ ev.on = "storage"
    /\ \/ ev.key # LS_KEY
       \/ ev.newValue \in { Absent, Empty }
       \/ ~Parses(ev.newValue)
       \/ JSONparse(ev.newValue) = JsNull

\* The event loop of context c dispatches its next event in this step
Dispatches(c) ==
    /\ chan.events[c] # <<>>
    /\ chan'.events[c] = Tail(chan.events[c])

LockedAndResolved(c) ==
    /\ loc[c].live /\ TabOf(c) = 2
    /\ loc[c].symbolsLocked
    /\ IsTrue(Doc.tabs[1], "bonusSymbol")

\* NEW_SYMBOL_FOUND is the next event of context c
NewSymbolNext(c) ==
    inbox[c] # <<>> /\ Head(inbox[c]).type = "NEW_SYMBOL_FOUND"

\* The closure variables of c after this step are the ones before it, but
\* for the lock
Unlocks(c) == loc'[c] = [ loc[c] EXCEPT !.symbolsLocked = FALSE ]

\* C28: a tab-2 context is locked only with the first two symbols of the
\* sequence activated. When it is locked and tabs.1.bonusSymbol is
\* persisted as true, its onMessage callback run for NEW_SYMBOL_FOUND and
\* its visibility handler each unlock it and change nothing else, so the
\* two symbols stay activated; and nothing else changes its closure
\* variables before that.
C28_MidPuzzleUnlock ==
    /\ [] ( \A c \in PatternCtx :
              loc[c].symbolsLocked =>
                loc[c].activatedSequence = SubSeq(CORRECT_SEQUENCE, 1, 2) )
    /\ [] ( \A c \in PatternCtx :
              LockedAndResolved(c) /\ Idle(c) =>
                /\ ENABLED L2Visibility(c)
                /\ ~ ENABLED (L2Visibility(c) /\ ~Unlocks(c))
                /\ NewSymbolNext(c) =>
                     /\ ENABLED L2OnMessage(c)
                     /\ ~ ENABLED (L2OnMessage(c) /\ ~Unlocks(c)) )
    /\ [][ \A c \in PatternCtx :
             LockedAndResolved(c) /\ loc'[c] # loc[c] => Unlocks(c) ]_vars

\* C28 witness: a tab-2 context that locked at 2 of 4 (the bonus symbol was
\* not collected when it started) is unlocked again, the bonus symbol is
\* persisted as collected and the two symbols are still activated.
C28_ResumedAtTwo ==
    \E c \in PatternCtx :
        /\ TabOf(c) = 2 /\ Idle(c)
        /\ ~loc[c].midPuzzleResolved
        /\ ~loc[c].symbolsLocked
        /\ loc[c].activatedSequence = << "B", "D" >>
        /\ IsTrue(Doc.tabs[1], "bonusSymbol")


\* Context c, a tab-2 context with no handler running, takes
\* MIND_FRAGMENTS_COLLECTED off its queue in this step
TakesMindFragments(c) ==
    /\ Idle(c) /\ TabOf(c) = 2 /\ loc[c].listening
    /\ inbox[c] # <<>>
    /\ Head(inbox[c]).type = "MIND_FRAGMENTS_COLLECTED"
    /\ inbox'[c] = Tail(inbox[c])

\* The exit that opens tab 4 is among the interactables of level 2
Act2ExitRevealed(l) == "exit_act2" \in L2Interactables(l)

\* C29: when a tab-2 context takes MIND_FRAGMENTS_COLLECTED, which tab 1
\* sends once all three mind fragments are persisted, the exit that opens
\* tab 4 is among its interactables afterwards.
C29_ActTwoExitRevealed ==
    [][ \A c \in ActTwoCtx :
          TakesMindFragments(c) => Act2ExitRevealed(loc'[c]) ]_vars

\* C29 witness: tab 1 has collected the three mind fragments in 3D and has
\* sent MIND_FRAGMENTS_COLLECTED; the envelope is queued for the listening
\* tab-2 context.
C29_MindFragmentsSent ==
    /\ Len(Doc.player.mindFragments) = 3
    /\ IsTrue(Doc.tabs[1], "mindComplete")
    /\ Idle(2) /\ loc[2].scene /\ loc[2].mindFragMeshes = {}
    /\ Idle(4) /\ loc[4].listening
    /\ inbox[4] = << Envelope("MIND_FRAGMENTS_COLLECTED", 1, [ fromTab |-> 1 ]) >>

----------------------------------------------------------------------------
(* Properties of the narrator *)

\* The line ids displayed so far
DisplayedIds == [ i \in DOMAIN hist.displayed |-> hist.displayed[i].id ]

\* C30: no narrator line repeats: a line id is displayed at most once in a
\* game, also after a context was closed and opened again and across
\* contexts, the log narrative.shown of the persisted document being read
\* before a line is displayed and extended when it is.
C30_NoLineRepeats ==
    \A i, j \in DOMAIN DisplayedIds :
        DisplayedIds[i] = DisplayedIds[j] => i = j

\* One context of tab 2 displayed the entry line and the log holds it; the
\* other context of tab 2 was opened after that, and its init did not play
\* the line again.
C30_LoggedLineSkipped ==
    /\ hist.displayed = << [ ctx |-> 4, id |-> "tab2_enter" ] >>
    /\ Includes(Doc.narrative.shown, "tab2_enter")
    /\ loc[5].listening /\ ~loc[5].isAnimating
    /\ Includes(loc[5].shownLines, "tab2_enter")

----------------------------------------------------------------------------
(* Properties of the audio functions *)

\* C31: silenceAll() is permanent for the context: once it has been called,
\* no later event (the tab shown again, initAudio, a level calling
\* playLofiMusic or playAmbient) starts the lofi music or the ambient tone.
C31_SilencePermanent ==
    \A c \in AudioCtx :
        loc[c].audio.silenced =>
            ~loc[c].audio.lofiRunning /\ ~loc[c].audio.ambientOsc

\* The music had been started and was silenced, and nothing plays
C31_Silenced ==
    \E c \in AudioCtx :
        /\ loc[c].audio.silenced /\ loc[c].audio.created >= 1
        /\ ~loc[c].audio.lofiRunning /\ ~loc[c].audio.ambientOsc

\* C39: whenever the lofi loop is marked running, lofiMaster is the gain
\* node that the latest playLofiMusic() created, connected: the cleanup
\* timer of an earlier stopLofiMusic() never disconnects or nulls the node
\* of a playback started after that stop.
C39_LofiMasterIsLatest ==
    \A c \in AudioCtx :
        loc[c].audio.lofiRunning =>
            /\ loc[c].audio.lofiMaster = loc[c].audio.created
            /\ loc[c].audio.lofiMaster \notin loc[c].audio.disconnected

\* The music was stopped, the cleanup timer fired, and the music was started
\* again: the second node is in place and no timer is pending
C39_RestartedAfterCleanup ==
    \E c \in AudioCtx :
        /\ loc[c].audio.lofiRunning /\ loc[c].audio.lofiMaster = 2
        /\ loc[c].audio.disconnected = { 1 } /\ loc[c].audio.cleanups = 0

----------------------------------------------------------------------------
(* Properties of the recovery paths *)

\* A tab-2 context is locked and its BACKTRACK_TRIGGER is out
Tab2Locked ==
    \E c \in PatternCtx :
        TabOf(c) = 2 /\ Idle(c) /\ loc[c].symbolsLocked

\* Context c shows tab 1 in 2D, its init has run, and no event waits for it
Tab1Settled(c) ==
    /\ TabOf(c) = 1 /\ Idle(c) /\ loc[c].listening
    /\ ~loc[c].is3DMode /\ ~loc[c].entered3D
    /\ inbox[c] = <<>>

\* This step places the bonus symbol in context c
Places(c) == loc'[c].bonusSymbolPlaced

\* C32: the mid-puzzle lock does not deadlock on a lost envelope: while tab 2
\* is locked and the bonus symbol is not collected, a tab-1 context that has
\* loaded and has no envelope left to take has placed the bonus symbol, or
\* places it at its next visibility-restore.
C32_LockRecovers ==
    \A c \in PatternCtx :
        Tab2Locked /\ Tab1Settled(c) /\ ~IsTrue(Doc.tabs[1], "bonusSymbol") =>
            \/ loc[c].bonusSymbolPlaced
            \/ ENABLED (L1Visibility(c) /\ Places(c))

\* Tab 2 is locked and the tab-1 context, which took the envelope, shows
\* the bonus symbol
C32_PlacedOnEnvelope ==
    \E c \in PatternCtx :
        /\ Tab2Locked /\ Tab1Settled(c)
        /\ loc[c].bonusSymbolPlaced /\ ~loc[c].bonusSymbolCollected
        /\ IsTrue(Doc.tabs[1], "bonusSymbolAvailable")

\* The game is complete and the three mind fragments are in the store, and
\* every handler has run to its end
FragmentsStored ==
    /\ Doc.meta.gameComplete
    /\ Len(Doc.player.mindFragments) >= 3
    /\ \A c \in ItemCtx : todo[c] = <<>>

\* This step places the Act 2 item in context c
PlacesItem(c) == loc'[c].actTwoItemPlaced

\* C33: once meta.gameComplete is true and player.mindFragments holds three
\* ids, a live tab-3 context that has no envelope and no timer left has
\* placed the Act 2 item, or places it at its next visibility-restore; also
\* a context that was reloaded after the game was completed and before the
\* fragments were collected.
C33_ActTwoItemPlaced ==
    \A c \in ItemCtx :
        /\ FragmentsStored
        /\ TabOf(c) = 3 /\ Idle(c) /\ loc[c].listening
        /\ inbox[c] = <<>> /\ ~loc[c].actTwoTimer
        => \/ loc[c].actTwoItemPlaced
           \/ ENABLED (L3Visibility(c) /\ PlacesItem(c))

\* The context that completed the game missed nothing and placed the item
C33_PlacedByCompleter ==
    /\ FragmentsStored
    /\ loc[1].gameComplete /\ loc[1].actTwoItemPlaced

\* C34: once tabs.4.fragmentsCollected holds the three memory fragments, a
\* live tab-4 context whose handlers have run has run the conclusion or has
\* its timer pending, or the conclusion is on record in the store; also
\* when the context was closed and opened again between the last collection
\* and the firing of the timer.
C34_ConclusionRuns ==
    \A c \in EmergenceCtx :
        /\ Len(Doc.tabs[4].fragmentsCollected) >= 3
        /\ Idle(c) /\ loc[c].scene
        => \/ loc[c].conclusionTriggered
           \/ loc[c].conclusionTimer
           \/ Doc.meta.actTwoComplete

\* The context that collected the last fragment ran the conclusion
C34_Concluded ==
    \E c \in EmergenceCtx :
        /\ Idle(c) /\ loc[c].conclusionTriggered
        /\ Doc.meta.actTwoComplete
        /\ Len(Doc.tabs[4].fragmentsCollected) = 3

----------------------------------------------------------------------------
(* Properties of the puzzle gates *)

\* This step locks the symbols of context c
Locks(c) == ~loc[c].symbolsLocked /\ loc'[c].symbolsLocked

\* C35: tab 2 never enters the locked state while the store has
\* tabs.1.bonusSymbol = true: once the bonus symbol is collected, no
\* activation of a symbol locks the symbols again, also after a wrong
\* activation that resets the sequence and two correct ones.
C35_NoLockOnceCollected ==
    [][ \A c \in PatternCtx :
          IsTrue(Doc.tabs[1], "bonusSymbol") => ~Locks(c) ]_vars

\* A tab-2 context that started after the bonus symbol was collected holds
\* two activated symbols and is not locked
C35_SecondSymbolUnlocked ==
    \E c \in PatternCtx :
        /\ TabOf(c) = 2 /\ Idle(c) /\ loc[c].midPuzzleResolved
        /\ Len(loc[c].activatedSequence) = 2 /\ ~loc[c].symbolsLocked
        /\ IsTrue(Doc.tabs[1], "bonusSymbol")

\* C36: completion is gated in every reachable state: meta.gameComplete
\* implies tabs.3.puzzleSolved, and tabs.3.puzzleSolved implies
\* tabs.3.backtrackedTo1 and every required symbol in player.codeFragments.
C36_CompletionGated ==
    /\ Doc.meta.gameComplete => Doc.tabs[3].puzzleSolved
    /\ Doc.tabs[3].puzzleSolved =>
         /\ Doc.tabs[3].backtrackedTo1
         /\ HasAll(Doc.player.codeFragments)

\* The game is complete in the store, with the wall solved, the backtrack
\* on record and every symbol collected
C36_Completed ==
    /\ Doc.meta.gameComplete /\ Doc.tabs[3].puzzleSolved
    /\ Doc.tabs[3].backtrackedTo1 /\ HasAll(Doc.player.codeFragments)

\* C37: in every reachable state tabs.2.puzzleSolved implies
\* tabs.1.bonusSymbol: tab 2 does not complete the sequence without the
\* bonus symbol collected and persisted by tab 1.
C37_SolvedOnlyWithBonus ==
    Doc.tabs[2].puzzleSolved => IsTrue(Doc.tabs[1], "bonusSymbol")

\* Tab 2 locked at two symbols, was unlocked and completed the sequence
C37_SolvedAfterUnlock ==
    \E c \in PatternCtx :
        /\ TabOf(c) = 2 /\ Idle(c) /\ ~loc[c].midPuzzleResolved
        /\ loc[c].puzzleSolved /\ Doc.tabs[2].puzzleSolved
        /\ IsTrue(Doc.tabs[1], "bonusSymbol")


----------------------------------------------------------------------------
(* Properties of the narrator *)

\* The ids call i marks as shown or displays
Covers(i, id) ==
    /\ Includes(hist.calls[i].ids, id)
    /\ hist.calls[i].kind = "sync" \/ hist.calls[i].displayed

\* C38: at most one animation is active in a context: a triggerNarrator(id)
\* that arrives while a line is animating displays nothing and does not mark
\* id as shown, and a line that was displayed or passed to setShownLines is
\* never displayed again in that context.
C38_OneAnimation ==
    \A j \in 1..Len(hist.calls) :
        LET call == hist.calls[j] IN
            /\ call.kind = "trigger" /\ call.animating
                   => ~call.displayed /\ ~call.marked
            /\ call.displayed
                   => \A i \in 1..(j - 1) : ~Covers(i, Head(call.ids))

\* C38 (the case): a line triggered while another was animating was skipped
\* and not marked, and a later trigger displayed it
C38_SkippedLineShownLater ==
    \E i, j \in 1..Len(hist.calls) :
        /\ i < j
        /\ hist.calls[i].kind = "trigger" /\ hist.calls[i].animating
        /\ ~hist.calls[i].displayed /\ ~hist.calls[i].marked
        /\ hist.calls[i].ids = hist.calls[j].ids
        /\ Head(hist.calls[i].ids) \in NARRATOR_LINES
        /\ hist.calls[j].displayed

====
